---------------------------- MODULE Spec2Model ----------------------------
(***************************************************************************)
(* speicher: the lock coordinator (State) over the stores' sync.RWMutex,   *)
(* and the Map store with its staged-change transaction.                   *)
(*                                                                         *)
(* Every caller (goroutine) owns one State.  A caller is either between    *)
(* two calls (pc.at = "idle") or inside one call, stopped in front of a    *)
(* blocking mutex acquisition or in front of the next step of the call.    *)
(***************************************************************************)
EXTENDS Integers, Naturals, Sequences, FiniteSets, TLC

VARIABLES
    locks,      \* State.locks of each caller: storeID -> lockState
    mu,         \* the sync.RWMutex of each store (memoryMap.mut / memoryList.mut)
    held,       \* history: the mode in which each caller holds each store's mutex
    badRelease, \* history: some release was done in a mode the releaser did not hold
    trail,      \* history: how far each caller's calls on a store follow UpDown
    pc,         \* where each caller stands
    fatal,      \* "none", or the fatal failure that ended the process
    data,       \* memoryMap.data of the Map store: key -> value
    tx,         \* the transaction begun last: changes, committed, rolledBack
    txMut,      \* memoryMapTx.mut: the caller inside a method of tx, or NoCaller
    atBegin,    \* history: data as it was when tx was begun
    staged,     \* history: the last tx.Set / tx.Delete of each key
    touched,    \* history: a single-operation writer wrote data since Begin
    saveTimer,  \* of each store: a change notification has scheduled a Save
    applied,    \* the keys of tx.changes that the loop of Commit has applied
    seen,       \* history: what the last read of the live Map observed
    heap,       \* the allocated elements of the List: address -> value
    ldata,      \* memoryList.data: the addresses of the elements, in order
    own,        \* the pointer each caller keeps from its last List call
    snap,       \* l.data as each caller inside Append has read it
    stored,     \* history: the values as they crossed the List boundary
    iter,       \* the last run of a Select pipeline: its input and its output
    rng,        \* the producer and the consumer of one Range call
    scope,      \* the scoped helper each caller is inside, and how far it is
    sched,      \* the persistence scheduler of each store: timers, guard, history
    nextStoreID, \* the counter that the ids of the stores are drawn from
    ctor,       \* the id each caller has drawn inside a constructor, or 0
    made,       \* the ids of the stores that exist
    issued,     \* history: the ids drawn, in order
    cheap,      \* the cells that cloned values refer to: address -> value
    cl,         \* one use of the clone engine: source, clone, history
    hs,         \* the Map and its transaction with the storage of their values
    hh          \* history: the pointers the transaction has returned

lockVars == <<locks, mu, held, badRelease, trail, pc, fatal>>

mapVars == <<data, tx, txMut, atBegin, staged, touched>>

readVars == <<applied, seen>>

listVars == <<heap, ldata, own, snap, stored>>

iterVars == <<iter, rng>>

\* the variables of the parts that stand beside the stores
idVars == <<nextStoreID, ctor, made, issued>>

cloneVars == <<cheap, cl>>

handleVars == <<hs, hh>>

moreVars == <<scope, sched, idVars, cloneVars, handleVars>>

\* of these, the ones that the scoped helpers, the scheduler and the
\* constructors leave alone
besideHelper == <<sched, idVars, cloneVars, handleVars>>

besideSched == <<scope, idVars, cloneVars, handleVars>>

besideIds == <<scope, sched, cloneVars, handleVars>>

besideClone == <<scope, sched, idVars, handleVars>>

besideHandle == <<scope, sched, idVars, cloneVars>>

\* the variables of the stores that the lock coordinator never touches
storeVars == <<mapVars, readVars, listVars, iterVars, moreVars>>

\* the variables that the Map's transaction never touches
restVars == <<saveTimer, listVars, iterVars, moreVars>>

vars == <<lockVars, mapVars, saveTimer, readVars, listVars, iterVars, moreVars>>

-----------------------------------------------------------------------------
(* Bounds of the model *)

\* the callers, each with its own State (NewState, one per goroutine)
Callers == {"c1", "c2"}

\* the stores
Stores == {"x", "y"}

\* readCount and writeCount of one lockState are explored up to this depth
MaxCount == 2

\* the store that is a Map with contents and a transaction
TheMap == "x"

\* the store that is a List
TheList == "l"

\* the addresses that the elements of the List are allocated at
Refs == {"r1", "r2"}

\* the keys and the values of the Map
Keys == {"a", "b"}

Values == {"v1", "v2"}

\* the quiet period and the max-wait ceiling of the persistence scheduler,
\* in ticks
QuietPeriod == 2

MaxWait == 5

\* the constructions of stores that are explored
MaxStores == 4

\* the variables that one transaction may make for its staged values
MaxHandles == 3

\* the addresses of the cells that the values given to the clone engine and
\* their clones refer to
Addrs == {"p1", "p2", "p3", "p4", "p5", "p6", "p7", "p8"}

\* the order in which free cells are taken
Before(a, b) ==
    LET rank == [p1 |-> 1, p2 |-> 2, p3 |-> 3, p4 |-> 4, p5 |-> 5, p6 |-> 6,
                 p7 |-> 7, p8 |-> 8]
    IN  rank[a] < rank[b]

NoStore == "-"

NoCaller == "-"

Idle == [at |-> "idle", x |-> NoStore]

At(label, x) == [at |-> label, x |-> x]

-----------------------------------------------------------------------------
(* The state of the parts that a specification leaves alone *)

\* no Save is scheduled
NothingScheduled == saveTimer = [x \in Stores |-> FALSE]

\* no read of the live Map has been observed
NoRead == [by |-> "none", d |-> <<>>]

NothingRead == applied = {} /\ seen = NoRead

NoRef == "nil"

\* the List is empty and no caller keeps a pointer
EmptyList ==
    /\ heap = <<>> /\ ldata = <<>> /\ stored = <<>>
    /\ own = [c \in Callers |-> NoRef]
    /\ snap = [c \in Callers |-> <<>>]

NoRun == [stage |-> "none"]

NoRange == [state |-> "none", left |-> <<>>, done |-> FALSE, cons |-> "none", got |-> 0]

NothingIterated == iter = NoRun /\ rng = NoRange

\* no caller is inside a scoped helper
NoScope == [kind |-> "none", stage |-> "none", ended |-> "none"]

\* no timer is set, no guard made, nothing notified
NoSched ==
    [quiet |-> 0, maxOn |-> FALSE, maxLeft |-> 0, once |-> "none", age |-> QuietPeriod,
     dirty |-> FALSE, saves |-> 0, early |-> FALSE, maxFired |-> FALSE]

\* no id was drawn
NoIds ==
    /\ nextStoreID = 0 /\ ctor = [c \in Callers |-> 0]
    /\ made = {} /\ issued = <<>>

\* the clone engine is not in use
NoClone == cheap = <<>> /\ cl = <<>>

NothingMore ==
    /\ scope = [c \in Callers |-> NoScope]
    /\ sched = [x \in {TheMap, TheList} |-> NoSched]
    /\ NoIds /\ NoClone
    /\ hs = <<>> /\ hh = <<>>

-----------------------------------------------------------------------------
(* lockState and State.locks *)

ZeroLockState == [readCount |-> 0, writeCount |-> 0]

\* s.locks after s.getLockState(id): a missing record is created, zeroed
getLockState(c, x) ==
    IF x \in DOMAIN locks[c] THEN locks[c] ELSE locks[c] @@ (x :> ZeroLockState)

readCount(c, x) == IF x \in DOMAIN locks[c] THEN locks[c][x].readCount ELSE 0

writeCount(c, x) == IF x \in DOMAIN locks[c] THEN locks[c][x].writeCount ELSE 0

HasReadLock(c, x) ==
    IF x \notin DOMAIN locks[c] THEN FALSE
    ELSE locks[c][x].readCount > 0 \/ locks[c][x].writeCount > 0

HasWriteLock(c, x) ==
    IF x \notin DOMAIN locks[c] THEN FALSE ELSE locks[c][x].writeCount > 0

-----------------------------------------------------------------------------
(* The fatal failures *)

UnlockMisuse == "speicher: Unlock called without matching Lock"

RUnlockMisuse == "speicher: RUnlock called without matching RLock"

MutexRUnlockFatal == "sync: RUnlock of unlocked RWMutex"

MutexUnlockFatal == "sync: Unlock of unlocked RWMutex"

\* the kind of a failure
Kind(f) ==
    IF f \in {UnlockMisuse, RUnlockMisuse} THEN "LockMisuse"
    ELSE IF f \in {MutexRUnlockFatal, MutexUnlockFatal} THEN "MutexMisuse"
    ELSE f

-----------------------------------------------------------------------------
(* History of the calls: the upgrade-then-downgrade sequence of one State  *)
(* on one store.  trail[c][x] is the sequence of the calls of c on x so    *)
(* far while that is a prefix of UpDown, and Off once it is not.           *)

UpDown == <<"RLock", "Lock", "Unlock", "RUnlock">>

Off == <<"other">>

Upgraded == SubSeq(UpDown, 1, 3)

Called(c, x, op) ==
    [trail EXCEPT ![c][x] =
        IF @ # Off /\ Len(@) < Len(UpDown) /\ UpDown[Len(@) + 1] = op
        THEN Append(@, op) ELSE Off]

-----------------------------------------------------------------------------
(* sync.RWMutex, as the stores use it.  w is "free", "pending" (a writer   *)
(* has announced itself and waits for the readers to leave; new readers    *)
(* wait) or "held"; r counts the readers inside.                           *)

FreeMutex == [w |-> "free", r |-> 0]

\* mut.RLock() returns only while no writer is pending or inside
CanRLock(x) == mu[x].w = "free"

\* the first half of mut.Lock(): become the one pending writer
CanAnnounce(x) == mu[x].w = "free"

\* the second half of mut.Lock(): the readers have left
CanLock(x) == mu[x].w = "pending" /\ mu[x].r = 0

\* mut.RUnlock() / mut.Unlock() of a mutex that is not locked that way is a
\* fatal error of the runtime
RUnlockFatal(x) == mu[x].r = 0

UnlockFatal(x) == mu[x].w # "held"

SetHeld(c, x, mode) == [held EXCEPT ![c][x] = mode]

\* a step of a call that panics or dies: the process ends where it stands
Die(f) ==
    /\ fatal' = f
    /\ UNCHANGED <<mu, held, badRelease, pc>>

\* a step of caller c without any mutex operation
NoMutexOp(c, then) ==
    /\ pc' = [pc EXCEPT ![c] = then]
    /\ UNCHANGED <<mu, held, badRelease, fatal>>

\* mut.RUnlock() by caller c
MutRUnlock(c, x, then) ==
    IF RUnlockFatal(x) THEN Die(MutexRUnlockFatal)
    ELSE /\ mu' = [mu EXCEPT ![x].r = @ - 1]
         /\ held' = SetHeld(c, x, "none")
         /\ badRelease' = (badRelease \/ held[c][x] # "R")
         /\ pc' = [pc EXCEPT ![c] = then]
         /\ UNCHANGED fatal

\* mut.Unlock() by caller c
MutUnlock(c, x, then) ==
    IF UnlockFatal(x) THEN Die(MutexUnlockFatal)
    ELSE /\ mu' = [mu EXCEPT ![x].w = "free"]
         /\ held' = SetHeld(c, x, "none")
         /\ badRelease' = (badRelease \/ held[c][x] # "W")
         /\ pc' = [pc EXCEPT ![c] = then]
         /\ UNCHANGED fatal

\* mut.RLock() returns to caller c
MutRLock(c, x, then) ==
    /\ CanRLock(x)
    /\ mu' = [mu EXCEPT ![x].r = @ + 1]
    /\ held' = SetHeld(c, x, "R")
    /\ pc' = [pc EXCEPT ![c] = then]
    /\ UNCHANGED <<badRelease, fatal>>

\* inside mut.Lock(): caller c becomes the pending writer
MutLockAnnounce(c, x, then) ==
    /\ CanAnnounce(x)
    /\ mu' = [mu EXCEPT ![x].w = "pending"]
    /\ held' = SetHeld(c, x, "P")
    /\ pc' = [pc EXCEPT ![c] = then]
    /\ UNCHANGED <<badRelease, fatal>>

\* mut.Lock() returns to caller c
MutLock(c, x, then) ==
    /\ CanLock(x)
    /\ mu' = [mu EXCEPT ![x].w = "held"]
    /\ held' = SetHeld(c, x, "W")
    /\ pc' = [pc EXCEPT ![c] = then]
    /\ UNCHANGED <<badRelease, fatal>>

-----------------------------------------------------------------------------
(* State.Lock *)

\* a read hold taken for a write hold
LockReentrant_onAnyHold(ls) == ls.writeCount > 0 \/ ls.readCount > 0

\* the re-entrant return left out
LockReentrant_never(ls) == FALSE

\* if ls.writeCount > 0
LockReentrant(ls) == ls.writeCount > 0

\* the upgrade keeps its shared hold while it waits for the exclusive one
LockUpgrades_keepsReadHold(ls) == FALSE

\* if ls.readCount > 0
LockUpgrades(ls) == ls.readCount > 0

\* the call up to mut.Lock(): the re-entrant return, or the upgrade's
\* mut.RUnlock(), and then the caller stands in front of mut.Lock()
Lock(c, x) ==
    /\ fatal = "none" /\ pc[c] = Idle
    /\ UNCHANGED <<storeVars, saveTimer>>
    /\ trail' = Called(c, x, "Lock")
    /\ LET ls == getLockState(c, x) IN
       IF LockReentrant(ls[x])
       THEN /\ ls[x].writeCount < MaxCount
            /\ locks' = [locks EXCEPT ![c] = [ls EXCEPT ![x].writeCount = @ + 1]]
            /\ NoMutexOp(c, Idle)
       ELSE /\ locks' = [locks EXCEPT ![c] = ls]
            /\ IF LockUpgrades(ls[x])
               THEN MutRUnlock(c, x, At("Lock_announce", x))
               ELSE NoMutexOp(c, At("Lock_announce", x))

\* inside mut.Lock(): the caller becomes the pending writer
LockAnnounce(c) ==
    /\ fatal = "none" /\ pc[c].at = "Lock_announce"
    /\ UNCHANGED <<storeVars, saveTimer>>
    /\ MutLockAnnounce(c, pc[c].x, At("Lock_wait", pc[c].x))
    /\ UNCHANGED <<locks, trail>>

\* mut.Lock() returns; ls.writeCount++
LockAcquire(c) ==
    /\ fatal = "none" /\ pc[c].at = "Lock_wait"
    /\ UNCHANGED <<storeVars, saveTimer>>
    /\ MutLock(c, pc[c].x, Idle)
    /\ locks' = [locks EXCEPT ![c][pc[c].x].writeCount = @ + 1]
    /\ UNCHANGED trail

-----------------------------------------------------------------------------
(* State.Unlock *)

\* the misuse check left out
UnlockIsMisuse_unchecked(ls) == FALSE

\* if ls.writeCount == 0 { panic }
UnlockIsMisuse(ls) == ls.writeCount = 0

\* every Unlock releases the mutex, whatever is left of writeCount
UnlockReleases_always(ls) == TRUE

\* if ls.writeCount == 0, after the decrement
UnlockReleases(ls) == ls.writeCount = 0

\* the downgrade left out
UnlockDowngrades_never(ls) == FALSE

\* if ls.readCount > 0, after the release
UnlockDowngrades(ls) == ls.readCount > 0

\* the call up to the change notification: the misuse panic, or the
\* decrement and, at zero, mut.Unlock()
Unlock(c, x) ==
    /\ fatal = "none" /\ pc[c] = Idle
    /\ UNCHANGED <<storeVars, saveTimer>>
    /\ trail' = Called(c, x, "Unlock")
    /\ LET ls == getLockState(c, x) IN
       IF UnlockIsMisuse(ls[x])
       THEN /\ locks' = [locks EXCEPT ![c] = ls]
            /\ Die(UnlockMisuse)
       ELSE LET after == [ls EXCEPT ![x].writeCount = @ - 1] IN
            /\ locks' = [locks EXCEPT ![c] = after]
            /\ IF UnlockReleases(after[x])
               THEN MutUnlock(c, x, At("Unlock_notify", x))
               ELSE NoMutexOp(c, Idle)

\* sav, ok := store.(savable): the Map and the List have a Save method; the
\* other store is a lockable without one
IsSavable(x) == x \in {TheMap, TheList}

\* notifyChanged(sav): the persistence scheduler is told that store x has
\* changed, and has a Save of x pending from then on
notifyChanged(x) == [saveTimer EXCEPT ![x] = TRUE]

\* notifyChanged(sav); then the caller returns, or stands in front of the
\* downgrade's mut.RLock()
UnlockNotify(c) ==
    /\ fatal = "none" /\ pc[c].at = "Unlock_notify"
    /\ saveTimer' = IF IsSavable(pc[c].x) THEN notifyChanged(pc[c].x) ELSE saveTimer
    /\ UNCHANGED storeVars
    /\ NoMutexOp(c, IF UnlockDowngrades(locks[c][pc[c].x])
                    THEN At("Unlock_rlock", pc[c].x) ELSE Idle)
    /\ UNCHANGED <<locks, trail>>

\* the downgrade's mut.RLock() returns
UnlockReacquire(c) ==
    /\ fatal = "none" /\ pc[c].at = "Unlock_rlock"
    /\ UNCHANGED <<storeVars, saveTimer>>
    /\ MutRLock(c, pc[c].x, Idle)
    /\ UNCHANGED <<locks, trail>>

-----------------------------------------------------------------------------
(* State.RLock *)

\* if ls.writeCount > 0
RLockImplied(ls) == ls.writeCount > 0

\* the mutex left alone on the first read lock
RLockIsFirst_never(ls) == FALSE

\* if ls.readCount == 0
RLockIsFirst(ls) == ls.readCount = 0

\* the call up to mut.RLock(): with a write or read hold it only counts
RLock(c, x) ==
    /\ fatal = "none" /\ pc[c] = Idle
    /\ UNCHANGED <<storeVars, saveTimer>>
    /\ trail' = Called(c, x, "RLock")
    /\ LET ls == getLockState(c, x) IN
       IF ~RLockImplied(ls[x]) /\ RLockIsFirst(ls[x])
       THEN /\ locks' = [locks EXCEPT ![c] = ls]
            /\ NoMutexOp(c, At("RLock_acquire", x))
       ELSE /\ ls[x].readCount < MaxCount
            /\ locks' = [locks EXCEPT ![c] = [ls EXCEPT ![x].readCount = @ + 1]]
            /\ NoMutexOp(c, Idle)

\* mut.RLock() returns; ls.readCount++
RLockAcquire(c) ==
    /\ fatal = "none" /\ pc[c].at = "RLock_acquire"
    /\ UNCHANGED <<storeVars, saveTimer>>
    /\ MutRLock(c, pc[c].x, Idle)
    /\ locks' = [locks EXCEPT ![c][pc[c].x].readCount = @ + 1]
    /\ UNCHANGED trail

-----------------------------------------------------------------------------
(* State.RUnlock *)

\* if ls.readCount == 0 { panic }
RUnlockIsMisuse(ls) == ls.readCount = 0

\* the release decided on readCount alone
RUnlockReleases_ignoresWrite(ls) == ls.readCount = 0

\* if ls.readCount == 0 && ls.writeCount == 0, after the decrement
RUnlockReleases(ls) == ls.readCount = 0 /\ ls.writeCount = 0

RUnlock(c, x) ==
    /\ fatal = "none" /\ pc[c] = Idle
    /\ UNCHANGED <<storeVars, saveTimer>>
    /\ trail' = Called(c, x, "RUnlock")
    /\ LET ls == getLockState(c, x) IN
       IF RUnlockIsMisuse(ls[x])
       THEN /\ locks' = [locks EXCEPT ![c] = ls]
            /\ Die(RUnlockMisuse)
       ELSE LET after == [ls EXCEPT ![x].readCount = @ - 1] IN
            /\ locks' = [locks EXCEPT ![c] = after]
            /\ IF RUnlockReleases(after[x])
               THEN MutRUnlock(c, x, Idle)
               ELSE NoMutexOp(c, Idle)

-----------------------------------------------------------------------------
(* memoryMap: the reads of the live Map *)

\* a predicate handed to Find / FindAll, given by the values it accepts
Predicates == SUBSET Values

\* the zero value of T
ZeroValue == "zero"

\* m.Get(key), on contents d
MapGet(d, k) == IF k \in DOMAIN d THEN <<d[k], TRUE>> ELSE <<ZeroValue, FALSE>>

\* m.Has(key), on contents d
MapHas(d, k) == k \in DOMAIN d

\* m.Find(f), on contents d: every result the iteration order allows
MapFind(d, f) ==
    IF \E k \in DOMAIN d : d[k] \in f
    THEN {<<d[k], TRUE>> : k \in {j \in DOMAIN d : d[j] \in f}}
    ELSE {<<ZeroValue, FALSE>>}

\* m.FindAll(f), on contents d: the matching entries, in some order
MapFindAll(d, f) == {k \in DOMAIN d : d[k] \in f}

\* what Get, Has, Find and FindAll return on contents d
LiveReads(d) ==
    [get |-> [k \in Keys |-> MapGet(d, k)],
     has |-> [k \in Keys |-> MapHas(d, k)],
     find |-> [f \in Predicates |-> MapFind(d, f)],
     findAll |-> [f \in Predicates |-> {d[k] : k \in MapFindAll(d, f)}]]

\* m.data[key] = value
MapPut(d, k, v) == [j \in DOMAIN d \cup {k} |-> IF j = k THEN v ELSE d[j]]

\* delete(m.data, key)
MapRemove(d, k) == [j \in DOMAIN d \ {k} |-> d[j]]

-----------------------------------------------------------------------------
(* The reads of the live Map as the callers run them.  Get, Has, Find and   *)
(* FindAll hold m.mut shared from their first to their last statement;      *)
(* the iteration of Select ranges over m.data without any lock.            *)

ConcurrentMapFatal == "concurrent map iteration and map write"

\* m.Get / m.Has / m.Find / m.FindAll: m.mut.RLock(), the read, and the
\* deferred m.mut.RUnlock()
MapRead(c) ==
    /\ fatal = "none" /\ pc[c] = Idle
    /\ CanRLock(TheMap)
    /\ seen' = [by |-> "Get", d |-> data]
    /\ UNCHANGED <<lockVars, mapVars, applied, restVars>>

\* some caller stands in front of a write of m.data
WriterInside ==
    \E w \in Callers :
        \/ pc[w].at \in {"Set_body", "Delete_body"}
        \/ pc[w].at = "Commit_body" /\ DOMAIN tx.changes \ applied # {}

\* for key, value := range m.data, of m.Select(): the entries are read as
\* they are; next to a writer the runtime may also end the process
SelectRead(c) ==
    /\ fatal = "none" /\ pc[c] = Idle
    /\ \/ /\ seen' = [by |-> "Select", d |-> data]
          /\ UNCHANGED fatal
       \/ /\ WriterInside
          /\ fatal' = ConcurrentMapFatal
          /\ UNCHANGED seen
    /\ UNCHANGED <<locks, mu, held, badRelease, trail, pc, mapVars, applied, restVars>>

-----------------------------------------------------------------------------
(* memoryMap.Set and memoryMap.Delete: m.mut.Lock(), the write, and the    *)
(* deferred m.mut.Unlock()                                                 *)

\* the call: the caller stands in front of m.mut.Lock().  The key and the
\* value of the call are read first in the body, and chosen there.
MapSet(c) ==
    /\ fatal = "none" /\ pc[c] = Idle
    /\ pc' = [pc EXCEPT ![c] = At("Set_announce", TheMap)]
    /\ UNCHANGED <<locks, mu, held, badRelease, trail, fatal, mapVars>>
    /\ UNCHANGED <<restVars, readVars>>

MapDelete(c) ==
    /\ fatal = "none" /\ pc[c] = Idle
    /\ pc' = [pc EXCEPT ![c] = At("Delete_announce", TheMap)]
    /\ UNCHANGED <<locks, mu, held, badRelease, trail, fatal, mapVars>>
    /\ UNCHANGED <<restVars, readVars>>

\* the label after a label of a writer that takes m.mut itself
AfterLabel(at) ==
    CASE at = "Set_announce" -> "Set_wait"
      [] at = "Set_wait" -> "Set_body"
      [] at = "Delete_announce" -> "Delete_wait"
      [] at = "Delete_wait" -> "Delete_body"
      [] at = "Commit_announce" -> "Commit_wait"
      [] at = "Commit_wait" -> "Commit_body"

\* inside m.mut.Lock(): the caller becomes the pending writer
MapLockAnnounce(c) ==
    /\ fatal = "none"
    /\ pc[c].at \in {"Set_announce", "Delete_announce", "Commit_announce"}
    /\ MutLockAnnounce(c, pc[c].x, [pc[c] EXCEPT !.at = AfterLabel(@)])
    /\ UNCHANGED <<locks, trail, mapVars, restVars, readVars>>

\* m.mut.Lock() returns
MapLockAcquire(c) ==
    /\ fatal = "none"
    /\ pc[c].at \in {"Set_wait", "Delete_wait", "Commit_wait"}
    /\ MutLock(c, pc[c].x, [pc[c] EXCEPT !.at = AfterLabel(@)])
    /\ UNCHANGED <<locks, trail, mapVars, restVars, readVars>>

\* m.data[key] = value; m.mut.Unlock()
MapSetBody(c, k, v) ==
    /\ fatal = "none" /\ pc[c].at = "Set_body"
    /\ data' = MapPut(data, k, v)
    /\ touched' = TRUE
    /\ MutUnlock(c, pc[c].x, Idle)
    /\ UNCHANGED <<locks, trail, tx, txMut, atBegin, staged, restVars, readVars>>

\* delete(m.data, key); m.mut.Unlock()
MapDeleteBody(c, k) ==
    /\ fatal = "none" /\ pc[c].at = "Delete_body"
    /\ data' = MapRemove(data, k)
    /\ touched' = TRUE
    /\ MutUnlock(c, pc[c].x, Idle)
    /\ UNCHANGED <<locks, trail, tx, txMut, atBegin, staged, restVars, readVars>>

-----------------------------------------------------------------------------
(* memoryMapTx.  changes maps a key to a value (a staged upsert) or to     *)
(* Tombstone (the nil pointer of a staged deletion); after Commit and      *)
(* Rollback changes is the nil map: changesNil, and no entries.            *)

Tombstone == "nil"

NilMapWrite == "assignment to entry in nil map"

\* before the first Begin there is no transaction
NoTx == [begun |-> FALSE, changes |-> <<>>, changesNil |-> TRUE,
         committed |-> FALSE, rolledBack |-> FALSE]

\* &memoryMapTx[T]{m, sync.Mutex{}, map[string]*T{}, false, false}
NewTx == [begun |-> TRUE, changes |-> <<>>, changesNil |-> FALSE,
          committed |-> FALSE, rolledBack |-> FALSE]

\* tx.changes = nil
DropChanges(t) == [t EXCEPT !.changes = <<>>, !.changesNil = TRUE]

\* m.Begin(); the transaction begun before is left behind
Begin(c) ==
    /\ fatal = "none" /\ pc[c] = Idle /\ txMut = NoCaller
    /\ tx' = NewTx
    /\ atBegin' = data /\ staged' = <<>> /\ touched' = FALSE
    /\ applied' = {} /\ seen' = NoRead
    /\ UNCHANGED <<lockVars, data, txMut, restVars>>

\* tx.changes[key] = p, which panics on the nil map
StageWrite(k, p) ==
    IF tx.changesNil
    THEN /\ fatal' = NilMapWrite
         /\ UNCHANGED tx
    ELSE /\ tx' = [tx EXCEPT !.changes = MapPut(@, k, p)]
         /\ UNCHANGED fatal

\* tx.Set(key, value)
TxSet(c, k, v) ==
    /\ fatal = "none" /\ pc[c] = Idle /\ tx.begun /\ txMut = NoCaller
    /\ StageWrite(k, v)
    /\ staged' = IF tx.changesNil THEN staged ELSE MapPut(staged, k, v)
    /\ UNCHANGED <<locks, mu, held, badRelease, trail, pc, data, txMut, atBegin, touched>>
    /\ UNCHANGED <<restVars, readVars>>

\* tx.Delete(key)
TxDelete(c, k) ==
    /\ fatal = "none" /\ pc[c] = Idle /\ tx.begun /\ txMut = NoCaller
    /\ StageWrite(k, Tombstone)
    /\ staged' = IF tx.changesNil THEN staged ELSE MapPut(staged, k, Tombstone)
    /\ UNCHANGED <<locks, mu, held, badRelease, trail, pc, data, txMut, atBegin, touched>>
    /\ UNCHANGED <<restVars, readVars>>

\* tx.Get(key), for a key that is not staged and is live: the value is copied
\* into changes.  (For a staged key, and for a key that is nowhere, Get
\* changes nothing.)
TxGet(c, k) ==
    /\ fatal = "none" /\ pc[c] = Idle /\ tx.begun /\ txMut = NoCaller
    /\ k \notin DOMAIN tx.changes
    /\ k \in DOMAIN data
    /\ StageWrite(k, data[k])
    /\ UNCHANGED <<locks, mu, held, badRelease, trail, pc, data, txMut, atBegin,
                   staged, touched, restVars, readVars>>

\* tx.Has(key)
TxHas(k) ==
    k \in DOMAIN tx.changes \/ k \in DOMAIN data

\* tx.Select(), the first loop: every entry of tx.changes is yielded with its
\* pointer, the nil pointer of a staged deletion included
TxSelectStaged(t) == {<<k, t.changes[k]>> : k \in DOMAIN t.changes}

\* tx.Select(), the second loop: the live entries whose key is not in
\* tx.changes
TxSelectLive(t, d) == {<<k, d[k]>> : k \in DOMAIN d \ DOMAIN t.changes}

\* the terminal check without the rolled-back flag
CommitIsNoOp_ignoresRollback(t) == t.committed

\* if tx.committed || tx.rolledBack { return }
CommitIsNoOp(t) == t.committed \/ t.rolledBack

\* tx.Commit() up to tx.m.mut.Lock(): tx.mut is taken, a terminal
\* transaction returns, an open one is marked committed
Commit(c) ==
    /\ fatal = "none" /\ pc[c] = Idle /\ tx.begun /\ txMut = NoCaller
    /\ IF CommitIsNoOp(tx)
       THEN UNCHANGED <<tx, txMut, pc>>
       ELSE /\ tx' = [tx EXCEPT !.committed = TRUE]
            /\ txMut' = c
            /\ pc' = [pc EXCEPT ![c] = At("Commit_announce", TheMap)]
    /\ UNCHANGED <<locks, mu, held, badRelease, trail, fatal, data, atBegin, staged,
                   touched, restVars, readVars>>

\* the staged deletions left out
ApplyChanges_upsertsOnly(d, ch, ks) ==
    LET ups == {k \in ks : ch[k] # Tombstone} IN
    [k \in DOMAIN d \cup ups |-> IF k \in ups THEN ch[k] ELSE d[k]]

\* for key, value := range tx.changes: delete(tx.m.data, key) for a nil
\* value, tx.m.data[key] = *value otherwise
RECURSIVE ApplyChanges(_, _, _)
ApplyChanges(d, ch, ks) ==
    IF ks = {} THEN d
    ELSE LET k == CHOOSE j \in ks : TRUE IN
         ApplyChanges(IF ch[k] = Tombstone THEN MapRemove(d, k) ELSE MapPut(d, k, ch[k]),
                      ch, ks \ {k})

\* the changes are applied; tx.changes = nil; the deferred
\* tx.m.mut.Unlock() and tx.mut.Unlock()
CommitBody(c) ==
    /\ fatal = "none" /\ pc[c].at = "Commit_body"
    /\ data' = ApplyChanges(data, tx.changes, DOMAIN tx.changes \ applied)
    /\ applied' = {}
    /\ tx' = DropChanges(tx)
    /\ txMut' = IF UnlockFatal(pc[c].x) THEN txMut ELSE NoCaller
    /\ MutUnlock(c, pc[c].x, Idle)
    /\ UNCHANGED <<locks, trail, atBegin, staged, touched, seen, restVars>>

\* one round of the loop of Commit: delete(tx.m.data, key) for a nil value,
\* tx.m.data[key] = *value otherwise
ApplyChange(d, ch, k) ==
    IF ch[k] = Tombstone THEN MapRemove(d, k) ELSE MapPut(d, k, ch[k])

\* the loop of Commit, one key at a time, under tx.m.mut
CommitApply(c, k) ==
    /\ fatal = "none" /\ pc[c].at = "Commit_body"
    /\ k \in DOMAIN tx.changes \ applied
    /\ data' = ApplyChange(data, tx.changes, k)
    /\ applied' = applied \cup {k}
    /\ UNCHANGED <<lockVars, tx, txMut, atBegin, staged, touched, seen, restVars>>

\* tx.rolledBack = true
RollbackFlags(t) == [t EXCEPT !.rolledBack = TRUE]

\* tx.Rollback()
Rollback(c) ==
    /\ fatal = "none" /\ pc[c] = Idle /\ tx.begun /\ txMut = NoCaller
    /\ tx' = DropChanges(RollbackFlags(tx))
    /\ UNCHANGED <<lockVars, data, txMut, atBegin, staged, touched, restVars, readVars>>

-----------------------------------------------------------------------------
(* memoryList with elements of a pointer type.  heap holds what the        *)
(* pointers point at; l.data holds the pointers.  No method of the List    *)
(* takes l.mut and none copies a value: locking is left to the caller's    *)
(* State.                                                                  *)

\* the caller's p := &T{...}: a fresh address, while there is one
CanAllocate == Refs \ DOMAIN heap # {}

NewRef == CHOOSE r \in Refs : r \notin DOMAIN heap

\* l.Append(value), up to the read of l.data: the caller has allocated the
\* element it hands in, and keeps the pointer
ListAppend(c, v) ==
    /\ fatal = "none" /\ pc[c] = Idle
    /\ CanAllocate
    /\ heap' = MapPut(heap, NewRef, v)
    /\ own' = [own EXCEPT ![c] = NewRef]
    /\ snap' = [snap EXCEPT ![c] = ldata]
    /\ pc' = [pc EXCEPT ![c] = At("Append_write", TheList)]
    /\ UNCHANGED <<locks, mu, held, badRelease, trail, fatal, mapVars, moreVars, readVars,
                   saveTimer, ldata, stored, iterVars>>

\* l.data = append(<l.data as read>, value): the pointer itself is stored
ListAppendWrite(c) ==
    /\ fatal = "none" /\ pc[c].at = "Append_write"
    /\ ldata' = Append(snap[c], own[c])
    /\ stored' = MapPut(stored, own[c], heap[own[c]])
    /\ pc' = [pc EXCEPT ![c] = Idle]
    /\ UNCHANGED <<locks, mu, held, badRelease, trail, fatal, mapVars, moreVars, readVars,
                   saveTimer, heap, own, snap, iterVars>>

\* l.Set(index, value) with an index in range: l.data[index] = value
ListSet(c, i, v) ==
    /\ fatal = "none" /\ pc[c] = Idle
    /\ i \in 1..Len(ldata)
    /\ CanAllocate
    /\ heap' = MapPut(heap, NewRef, v)
    /\ own' = [own EXCEPT ![c] = NewRef]
    /\ ldata' = [ldata EXCEPT ![i] = NewRef]
    /\ stored' = MapPut(stored, NewRef, v)
    /\ UNCHANGED <<lockVars, mapVars, moreVars, readVars, saveTimer, snap, iterVars>>

\* l.Get(index) with an index in range: value = l.data[index]
ListGet(c, i) ==
    /\ fatal = "none" /\ pc[c] = Idle
    /\ i \in 1..Len(ldata)
    /\ own' = [own EXCEPT ![c] = ldata[i]]
    /\ UNCHANGED <<lockVars, mapVars, moreVars, readVars, saveTimer, heap, ldata, snap, stored,
                   iterVars>>

\* the caller writes through the pointer it keeps: p.field = v
Mutate(c, v) ==
    /\ fatal = "none" /\ pc[c] = Idle
    /\ own[c] # NoRef /\ heap[own[c]] # v
    /\ heap' = [heap EXCEPT ![own[c]] = v]
    /\ UNCHANGED <<lockVars, mapVars, moreVars, readVars, saveTimer, ldata, own, snap, stored,
                   iterVars>>

-----------------------------------------------------------------------------
(* MapIterator: the pipeline stages Limit and OrderBy over an upstream     *)
(* iterator.  An upstream is given by the entries it yields, in the order  *)
(* in which it yields them when it is never stopped.                       *)

\* the keys of the entries of a pipeline
IterKeys == {"a", "b", "c"}

\* Limit(limit) is called with limits up to this one
MaxLimit == 2

\* m.Select(): the entries of a Map, every key once, in any order
Upstreams ==
    UNION {{s \in [1..n -> IterKeys \X Values] :
               \A i, j \in 1..n : i # j => s[i][1] # s[j][1]}
           : n \in 0..Cardinality(IterKeys)}

\* the comparators: by value, v1 before v2, and by key, a before b before c
Orders == {"byValue", "byKey"}

Pos(s, e) == CHOOSE i \in 1..Len(s) : s[i] = e

\* orderBy(a, b)
Less(order, a, b) ==
    IF order = "byValue"
    THEN Pos(<<"v1", "v2">>, a[2]) < Pos(<<"v1", "v2">>, b[2])
    ELSE Pos(<<"a", "b", "c">>, a[1]) < Pos(<<"a", "b", "c">>, b[1])

\* the loop of Limit over the upstream src, with a consumer that never
\* stops: the upstream yields src[pos] into the loop body, which breaks at
\* i >= limit and yields the entry otherwise.  pulled counts the entries the
\* upstream has produced.
RECURSIVE LimitLoop(_, _, _, _, _)
LimitLoop(src, limit, pos, i, out) ==
    IF pos > Len(src) THEN [out |-> out, pulled |-> Len(src)]
    ELSE IF i >= limit THEN [out |-> out, pulled |-> pos]
    ELSE LimitLoop(src, limit, pos + 1, i + 1, Append(out, src[pos]))

\* sort.Slice(kvPairs, less): some ordering of the entries that is sorted
\* by less; entries that compare equal come in any order
SortSlice(s, order) ==
    {p \in [1..Len(s) -> {s[i] : i \in 1..Len(s)}] :
        /\ \A i, j \in 1..Len(s) : i # j => p[i] # p[j]
        /\ \A i, j \in 1..Len(s) : i < j => ~Less(order, p[j], p[i])}

\* for key, value := range mi.Limit(limit)
RunLimit ==
    /\ iter.stage = "in"
    /\ LET run == LimitLoop(iter.src, iter.limit, 1, 0, <<>>) IN
       iter' = [iter EXCEPT !.stage = "Limit", !.out = run.out, !.pulled = run.pulled]
    /\ UNCHANGED <<lockVars, mapVars, moreVars, saveTimer, readVars, listVars, rng>>

\* for key, value := range mi.OrderBy(orderBy): the upstream is drained into
\* kvPairs, sorted, and yielded
RunOrderBy ==
    /\ iter.stage = "in"
    /\ \E p \in SortSlice(iter.src, iter.order) :
          iter' = [iter EXCEPT !.stage = "OrderBy", !.out = p, !.pulled = Len(iter.src)]
    /\ UNCHANGED <<lockVars, mapVars, moreVars, saveTimer, readVars, listVars, rng>>

-----------------------------------------------------------------------------
(* Range / RangeKV / RangeV: the snapshot of the store is handed to a       *)
(* background producer that sends it element by element on an unbuffered   *)
(* channel, until the snapshot is through or the done channel is closed.   *)
(* rng.left is what the producer has not sent yet.                         *)

\* the stores hold up to this many elements when Range is called
MaxLen == 3

\* values := make([]T, len(l.data)); copy(values, l.data)
Snapshots == UNION {[1..n -> Values] : n \in 0..MaxLen}

\* Range() has returned: the producer runs, the consumer receives
NewRange(values) ==
    [state |-> "run", left |-> values, done |-> FALSE, cons |-> "recv", got |-> 0]

\* the producer never looks at done
DoneReady_never == FALSE

\* case <-done is ready: done is closed
DoneReady == rng.done

\* case ch <- value, taken together with a receive of the consumer
Send ==
    /\ rng.state = "run" /\ rng.left # <<>> /\ rng.cons = "recv"
    /\ rng' = [rng EXCEPT !.left = Tail(@), !.got = @ + 1]
    /\ UNCHANGED <<lockVars, mapVars, moreVars, saveTimer, readVars, listVars, iter>>

\* case <-done: return, and the deferred close(ch)
ProducerDone ==
    /\ rng.state = "run" /\ rng.left # <<>> /\ DoneReady
    /\ rng' = [rng EXCEPT !.state = "exit"]
    /\ UNCHANGED <<lockVars, mapVars, moreVars, saveTimer, readVars, listVars, iter>>

\* the loop is through: the deferred close(ch)
ProducerEnd ==
    /\ rng.state = "run" /\ rng.left = <<>>
    /\ rng' = [rng EXCEPT !.state = "exit"]
    /\ UNCHANGED <<lockVars, mapVars, moreVars, saveTimer, readVars, listVars, iter>>

\* cancel(): closeOnce.Do(close(done)); the consumer may go on receiving
Cancel ==
    /\ rng.state # "none" /\ rng.cons = "recv"
    /\ ~rng.done
    /\ rng' = [rng EXCEPT !.done = TRUE]
    /\ UNCHANGED <<lockVars, mapVars, moreVars, saveTimer, readVars, listVars, iter>>

\* the consumer stops receiving for good: its loop ends or is left
Leave ==
    /\ rng.state # "none" /\ rng.cons = "recv"
    /\ rng' = [rng EXCEPT !.cons = "left"]
    /\ UNCHANGED <<lockVars, mapVars, moreVars, saveTimer, readVars, listVars, iter>>

-----------------------------------------------------------------------------
(* The lock coordinator alone: every caller calls Lock, Unlock, RLock and  *)
(* RUnlock on any store in any order.                                      *)

InitLock ==
    /\ locks = [c \in Callers |-> <<>>]
    /\ mu = [x \in Stores |-> FreeMutex]
    /\ held = [c \in Callers |-> [x \in Stores |-> "none"]]
    /\ badRelease = FALSE
    /\ trail = [c \in Callers |-> [x \in Stores |-> <<>>]]
    /\ pc = [c \in Callers |-> Idle]
    /\ fatal = "none"
    /\ data = <<>> /\ tx = NoTx /\ txMut = NoCaller
    /\ atBegin = <<>> /\ staged = <<>> /\ touched = FALSE
    /\ NothingScheduled /\ NothingRead /\ EmptyList /\ NothingIterated /\ NothingMore

NextLock ==
    \/ \E c \in Callers, x \in Stores : Lock(c, x)
    \/ \E c \in Callers : LockAnnounce(c)
    \/ \E c \in Callers : LockAcquire(c)
    \/ \E c \in Callers, x \in Stores : Unlock(c, x)
    \/ \E c \in Callers : UnlockNotify(c)
    \/ \E c \in Callers : UnlockReacquire(c)
    \/ \E c \in Callers, x \in Stores : RLock(c, x)
    \/ \E c \in Callers : RLockAcquire(c)
    \/ \E c \in Callers, x \in Stores : RUnlock(c, x)

SpecLock == InitLock /\ [][NextLock]_vars

-----------------------------------------------------------------------------
(* Properties of the lock coordinator *)

\* caller c is inside a call on store x
Inside(c, x) == pc[c].at # "idle" /\ pc[c].x = x

\* caller c stands in front of a mutex acquisition that cannot return now
Blocked(c) ==
    \/ pc[c].at = "Lock_announce" /\ ~CanAnnounce(pc[c].x)
    \/ pc[c].at = "Lock_wait" /\ ~CanLock(pc[c].x)
    \/ pc[c].at \in {"RLock_acquire", "Unlock_rlock"} /\ ~CanRLock(pc[c].x)

\* caller c is between calls and all its counts are zero
Finished(c) ==
    pc[c] = Idle /\ \A x \in Stores : readCount(c, x) = 0 /\ writeCount(c, x) = 0

\* every unfinished caller is blocked, and there is one
Deadlocked ==
    /\ fatal = "none"
    /\ \E c \in Callers : Blocked(c)
    /\ \A c \in Callers : Blocked(c) \/ Finished(c)

C2_BalancedHolds ==
    /\ ~badRelease
    /\ Kind(fatal) # "MutexMisuse"
    /\ \A c \in Callers, x \in Stores :
        ~Inside(c, x) =>
            held[c][x] = (IF writeCount(c, x) > 0 THEN "W"
                          ELSE IF readCount(c, x) > 0 THEN "R" ELSE "none")

\* a State back at zero on a store it has locked both ways, after the
\* recursive sequence of the example: a downgrade happened on the way
C2_Witness ==
    \E c \in Callers, x \in Stores :
        /\ fatal = "none" /\ pc[c] = Idle
        /\ x \in DOMAIN locks[c] /\ locks[c][x] = ZeroLockState
        /\ held[c][x] = "none" /\ mu[x] = FreeMutex
        /\ trail[c][x] = Off

\* C3: upgrade then downgrade.  After RLock(x); Lock(x); Unlock(x) the State
\* has the read lock, not the write lock, and holds the mutex shared; after
\* the following RUnlock(x) it holds nothing, and the mutex is free for
\* another caller's Lock unless another caller holds it.
C3_UpgradeThenDowngrade ==
    \A c \in Callers, x \in Stores :
        ~Inside(c, x) =>
            /\ trail[c][x] = Upgraded =>
                  /\ HasReadLock(c, x) /\ ~HasWriteLock(c, x)
                  /\ held[c][x] = "R" /\ mu[x].r >= 1 /\ mu[x].w # "held"
            /\ trail[c][x] = UpDown =>
                  /\ ~HasReadLock(c, x)
                  /\ held[c][x] = "none"
                  /\ (\A d \in Callers \ {c} : held[d][x] = "none") => mu[x] = FreeMutex

\* after the four calls of one caller the other caller's Lock has returned
C3_Witness ==
    /\ trail["c1"]["x"] = UpDown /\ pc["c1"] = Idle
    /\ HasWriteLock("c2", "x") /\ held["c2"]["x"] = "W"

\* C5: re-entrancy.  Lock with writeCount > 0, and RLock with writeCount > 0
\* or readCount > 0, return in the same step without any mutex operation;
\* and a caller in front of the mutex acquisition of Lock or RLock can take
\* it whenever no other caller holds that mutex in any mode.
C5_ReentrantStep ==
    \A c \in Callers, x \in Stores :
        /\ (Lock(c, x) /\ writeCount(c, x) > 0) =>
              /\ mu' = mu /\ held' = held /\ pc'[c] = Idle
              /\ writeCount(c, x)' = writeCount(c, x) + 1
        /\ (RLock(c, x) /\ (writeCount(c, x) > 0 \/ readCount(c, x) > 0)) =>
              /\ mu' = mu /\ held' = held /\ pc'[c] = Idle
              /\ readCount(c, x)' = readCount(c, x) + 1

C5_NeverWaitsForItself ==
    \A c \in Callers :
        (/\ pc[c].at \in {"Lock_announce", "Lock_wait", "RLock_acquire"}
         /\ \A d \in Callers \ {c} : held[d][pc[c].x] = "none")
        => ~Blocked(c)

C5_Reentrancy == [][C5_ReentrantStep]_vars /\ []C5_NeverWaitsForItself

\* one State with both stores write-locked, one of them twice and read-locked
\* on top
C5_Witness ==
    \E c \in Callers :
        /\ writeCount(c, "x") = 2 /\ readCount(c, "x") >= 1
        /\ writeCount(c, "y") >= 1
        /\ held[c]["x"] = "W" /\ held[c]["y"] = "W"

C7_MisuseStep ==
    \A c \in Callers, x \in Stores :
        (\/ Unlock(c, x) /\ writeCount(c, x) = 0
         \/ RUnlock(c, x) /\ readCount(c, x) = 0)
        => /\ Kind(fatal') = "LockMisuse"
           /\ mu' = mu /\ held' = held /\ pc' = pc
           /\ \A d \in Callers, y \in Stores :
                 /\ readCount(d, y)' = readCount(d, y)
                 /\ writeCount(d, y)' = writeCount(d, y)

C7_MisuseIsFatal == [][C7_MisuseStep]_vars

\* a misuse by a caller while a mutex is held
C7_Witness ==
    /\ Kind(fatal) = "LockMisuse"
    /\ \E c \in Callers, x \in Stores : held[c][x] = "W"
    /\ \E c \in Callers, x \in Stores : held[c][x] = "none" /\ x \in DOMAIN locks[c]
                                         /\ locks[c][x] = ZeroLockState

\* C15: the notification of Unlock.  An Unlock that brings writeCount to 0
\* releases the exclusive hold and stands in front of the notification, none
\* fired yet; an Unlock that leaves writeCount > 0 returns with no mutex
\* operation and no notification.  The notification is fired while the caller
\* has no hold on the mutex (after the release, before the shared hold is
\* taken again), it schedules the Save of that store, and no other step of the
\* coordinator notifies.  (A lockable without a Save method is released the
\* same way and nothing is scheduled for it.)
C15_UnlockStep ==
    \A c \in Callers, x \in Stores :
        (Unlock(c, x) /\ writeCount(c, x) > 0) =>
            /\ saveTimer' = saveTimer
            /\ IF writeCount(c, x) = 1
               THEN /\ pc'[c] = At("Unlock_notify", x)
                    /\ held'[c][x] = "none" /\ mu'[x].w = "free"
               ELSE pc'[c] = Idle /\ mu' = mu /\ held' = held

C15_NotifyStep ==
    /\ \A c \in Callers :
          UnlockNotify(c) =>
              /\ IsSavable(pc[c].x) => saveTimer'[pc[c].x]
              /\ writeCount(c, pc[c].x) = 0 /\ held[c][pc[c].x] = "none"
              /\ mu' = mu /\ held' = held
              /\ pc'[c] = (IF readCount(c, pc[c].x) > 0
                           THEN At("Unlock_rlock", pc[c].x) ELSE Idle)
    /\ saveTimer' # saveTimer => \E c \in Callers : UnlockNotify(c)

C15_NotifyOnFullRelease == [][C15_UnlockStep /\ C15_NotifyStep]_vars

\* a caller that has released its upgraded write hold and notified, in
\* front of taking its shared hold again, while it still holds a nested write
\* lock on the other store, for which nothing was notified
C15_Witness ==
    \E c \in Callers :
        /\ pc[c] = At("Unlock_rlock", "x") /\ saveTimer["x"]
        /\ readCount(c, "x") > 0 /\ held[c]["x"] = "none"
        /\ writeCount(c, "y") > 0 /\ ~saveTimer["y"]

-----------------------------------------------------------------------------
(* The Map store with callers that lock it through their State while       *)
(* others write it with Set and Delete or commit a transaction.  The Map   *)
(* is loaded with any contents.                                            *)

AllMaps == UNION {[ks -> Values] : ks \in SUBSET Keys}

InitMap ==
    /\ locks = [c \in Callers |-> <<>>]
    /\ mu = [x \in Stores |-> FreeMutex]
    /\ held = [c \in Callers |-> [x \in Stores |-> "none"]]
    /\ badRelease = FALSE
    /\ trail = [c \in Callers |-> [x \in Stores |-> <<>>]]
    /\ pc = [c \in Callers |-> Idle]
    /\ fatal = "none"
    /\ data \in AllMaps
    /\ tx = NoTx /\ txMut = NoCaller
    /\ atBegin = <<>> /\ staged = <<>> /\ touched = FALSE
    /\ NothingScheduled /\ NothingRead /\ EmptyList /\ NothingIterated /\ NothingMore

NextMap ==
    \/ \E c \in Callers : Lock(c, TheMap)
    \/ \E c \in Callers : LockAnnounce(c)
    \/ \E c \in Callers : LockAcquire(c)
    \/ \E c \in Callers : Unlock(c, TheMap)
    \/ \E c \in Callers : UnlockNotify(c)
    \/ \E c \in Callers : MapSet(c)
    \/ \E c \in Callers : MapDelete(c)
    \/ \E c \in Callers : MapLockAnnounce(c)
    \/ \E c \in Callers : MapLockAcquire(c)
    \/ \E c \in Callers, k \in Keys, v \in Values : MapSetBody(c, k, v)
    \/ \E c \in Callers, k \in Keys : MapDeleteBody(c, k)
    \/ \E c \in Callers : Begin(c)
    \/ \E c \in Callers, k \in Keys, v \in Values : TxSet(c, k, v)
    \/ \E c \in Callers : Commit(c)
    \/ \E c \in Callers : CommitBody(c)

SpecMap == InitMap /\ [][NextMap]_vars

-----------------------------------------------------------------------------
(* The Map store and its transaction, without the lock coordinator *)

NextTx ==
    \/ \E c \in Callers : MapSet(c)
    \/ \E c \in Callers : MapDelete(c)
    \/ \E c \in Callers : MapLockAnnounce(c)
    \/ \E c \in Callers : MapLockAcquire(c)
    \/ \E c \in Callers, k \in Keys, v \in Values : MapSetBody(c, k, v)
    \/ \E c \in Callers, k \in Keys : MapDeleteBody(c, k)
    \/ \E c \in Callers : Begin(c)
    \/ \E c \in Callers, k \in Keys, v \in Values : TxSet(c, k, v)
    \/ \E c \in Callers, k \in Keys : TxDelete(c, k)
    \/ \E c \in Callers, k \in Keys : TxGet(c, k)
    \/ \E c \in Callers : Commit(c)
    \/ \E c \in Callers : CommitBody(c)
    \/ \E c \in Callers : Rollback(c)

SpecTx == InitMap /\ [][NextTx]_vars

-----------------------------------------------------------------------------
(* Properties of the Map store and its transaction *)

CommitApplied == tx.committed /\ tx.changesNil

\* C8: transaction isolation.  With no single-operation writer since Begin,
\* every read of the live Map returns what it returned at Begin until Commit
\* has applied the changes, whatever was staged; from then on a key staged
\* last by Set reads as the staged value, a key staged last by Delete is
\* absent, and every other key reads as at Begin.
C8_Isolation ==
    (tx.begun /\ ~touched) =>
        IF ~CommitApplied
        THEN LiveReads(data) = LiveReads(atBegin)
        ELSE \A k \in Keys :
                IF k \notin DOMAIN staged THEN MapGet(data, k) = MapGet(atBegin, k)
                ELSE IF staged[k] = Tombstone THEN ~MapHas(data, k)
                ELSE MapGet(data, k) = <<staged[k], TRUE>>

\* the Map had {"a": v1}; Set("a", v2) and Delete("b") were staged and
\* committed
C8_Witness ==
    /\ CommitApplied /\ ~touched
    /\ MapGet(atBegin, "a") = <<"v1", TRUE>> /\ MapHas(atBegin, "b")
    /\ "a" \in DOMAIN staged /\ staged["a"] = "v2"
    /\ "b" \in DOMAIN staged /\ staged["b"] = Tombstone
    /\ MapGet(data, "a") = <<"v2", TRUE>> /\ ~MapHas(data, "b")

\* C9: rollback has no effect.  A transaction that is not committed (rolled
\* back, or not resolved) leaves the contents of the live Map as they were
\* at Begin, absent other writers; and Commit on a rolled-back transaction
\* changes nothing at all.
C9_Unchanged == (tx.begun /\ ~tx.committed /\ ~touched) => data = atBegin

C9_CommitAfterRollback ==
    \A c \in Callers : (Commit(c) /\ tx.rolledBack) => UNCHANGED vars

C9_RollbackNoEffect == []C9_Unchanged /\ [][C9_CommitAfterRollback]_vars

\* a rolled-back transaction that had staged another value for a live key
\* and the deletion of a live key
C9_Witness ==
    /\ tx.rolledBack /\ ~tx.committed /\ ~touched /\ tx.changesNil
    /\ "a" \in DOMAIN staged /\ staged["a"] = "v2" /\ MapGet(data, "a") = <<"v1", TRUE>>
    /\ "b" \in DOMAIN staged /\ staged["b"] = Tombstone /\ MapHas(data, "b")

\* C10 as stated: at most one of the flags committed and rolledBack is true.
C10_AtMostOneFlag == ~(tx.committed /\ tx.rolledBack)

\* a key of the open transaction with a staged deletion
StagedDelete(k) ==
    /\ tx.begun /\ ~tx.changesNil
    /\ k \in DOMAIN tx.changes /\ tx.changes[k] = Tombstone

\* C11 as stated: after tx.Delete(k) in an open transaction tx.Has(k) is
\* false, while the live Has(k) stays as it was at Begin until Commit.
C11_DeleteHidesKey ==
    \A k \in Keys :
        StagedDelete(k) =>
            /\ ~TxHas(k)
            /\ ~touched => MapHas(data, k) = MapHas(atBegin, k)

\* C13 as stated: tx.Select yields every staged upsert first, then every live
\* entry whose key has no staged entry, no key twice, and never a key with a
\* staged deletion.
C13_SelectSkipsTombstones ==
    (tx.begun /\ ~tx.changesNil) =>
        LET first == TxSelectStaged(tx)
            second == TxSelectLive(tx, data)
        IN /\ \A k \in DOMAIN tx.changes :
                  tx.changes[k] # Tombstone => <<k, tx.changes[k]>> \in first
           /\ \A k \in DOMAIN data \ DOMAIN tx.changes : <<k, data[k]>> \in second
           /\ \A e \in first : \A f \in second : e[1] # f[1]
           /\ \A k \in Keys :
                  StagedDelete(k) => \A e \in first \cup second : e[1] # k

\* C14 as stated: once the Commit of an open transaction has returned, a
\* change notification has reached the persistence scheduler.
C14_CommitNotifies ==
    (CommitApplied /\ txMut = NoCaller) => saveTimer[TheMap]

-----------------------------------------------------------------------------
(* The Map's transaction next to readers of the live Map *)

NextRead ==
    \/ \E c \in Callers : Begin(c)
    \/ \E c \in Callers, k \in Keys, v \in Values : TxSet(c, k, v)
    \/ \E c \in Callers, k \in Keys : TxDelete(c, k)
    \/ \E c \in Callers : Commit(c)
    \/ \E c \in Callers : MapLockAnnounce(c)
    \/ \E c \in Callers : MapLockAcquire(c)
    \/ \E c \in Callers, k \in Keys : CommitApply(c, k)
    \/ \E c \in Callers : CommitBody(c)
    \/ \E c \in Callers : MapRead(c)
    \/ \E c \in Callers : SelectRead(c)

SpecRead == InitMap /\ [][NextRead]_vars

\* the contents of the live Map once everything staged is applied
AllApplied == ApplyChanges(atBegin, staged, DOMAIN staged)

\* C12 as stated: every read of the live Map next to a Commit, the iteration
\* of Select included, observes none or all of the transaction's changes,
\* never a strict subset.
C12_CommitAtomic ==
    (tx.begun /\ seen.by # "none") => seen.d \in {atBegin, AllApplied}

-----------------------------------------------------------------------------
(* The List store: callers that lock it through their State next to        *)
(* callers that call its methods as they are                               *)

InitList ==
    /\ locks = [c \in Callers |-> <<>>]
    /\ mu = [x \in {TheList} |-> FreeMutex]
    /\ held = [c \in Callers |-> [x \in {TheList} |-> "none"]]
    /\ badRelease = FALSE
    /\ trail = [c \in Callers |-> [x \in {TheList} |-> <<>>]]
    /\ pc = [c \in Callers |-> Idle]
    /\ fatal = "none"
    /\ data = <<>> /\ tx = NoTx /\ txMut = NoCaller
    /\ atBegin = <<>> /\ staged = <<>> /\ touched = FALSE
    /\ saveTimer = [x \in {TheList} |-> FALSE]
    /\ NothingRead /\ EmptyList /\ NothingIterated /\ NothingMore

NextList ==
    \/ \E c \in Callers : Lock(c, TheList)
    \/ \E c \in Callers : LockAnnounce(c)
    \/ \E c \in Callers : LockAcquire(c)
    \/ \E c \in Callers : Unlock(c, TheList)
    \/ \E c \in Callers : UnlockNotify(c)
    \/ \E c \in Callers, v \in Values : ListAppend(c, v)
    \/ \E c \in Callers : ListAppendWrite(c)
    \/ \E c \in Callers, i \in 1..Cardinality(Refs), v \in Values : ListSet(c, i, v)
    \/ \E c \in Callers, i \in 1..Cardinality(Refs) : ListGet(c, i)
    \/ \E c \in Callers, v \in Values : Mutate(c, v)

SpecList == InitList /\ [][NextList]_vars

\* C16 as stated: no element of the List shares storage with a value a caller
\* holds, so every element still has the value with which it crossed the
\* boundary of the store.
C16_BoundaryIsolation ==
    \A i \in 1..Len(ldata) : heap[ldata[i]] = stored[ldata[i]]

\* C17 as stated: a List method never reads or writes the backing sequence
\* next to a writer: while a caller is inside Append, between its read and
\* its write of l.data, no other caller holds the write lock of the List.
C17_MethodsExcludeWriters ==
    \A c \in Callers :
        pc[c].at = "Append_write" =>
            \A d \in Callers \ {c} : held[d][TheList] # "W"

-----------------------------------------------------------------------------
(* The pipeline stages, each run on any upstream *)

InitIter ==
    /\ locks = [c \in Callers |-> <<>>]
    /\ mu = [x \in Stores |-> FreeMutex]
    /\ held = [c \in Callers |-> [x \in Stores |-> "none"]]
    /\ badRelease = FALSE
    /\ trail = [c \in Callers |-> [x \in Stores |-> <<>>]]
    /\ pc = [c \in Callers |-> Idle]
    /\ fatal = "none"
    /\ data = <<>> /\ tx = NoTx /\ txMut = NoCaller
    /\ atBegin = <<>> /\ staged = <<>> /\ touched = FALSE
    /\ NothingScheduled /\ NothingRead /\ EmptyList /\ NothingMore
    /\ iter \in [stage : {"in"}, src : Upstreams, limit : 0..MaxLimit, order : Orders,
                 out : {<<>>}, pulled : {0}]
    /\ rng = NoRange

NextIter == RunLimit \/ RunOrderBy

SpecIter == InitIter /\ [][NextIter]_vars

Min(a, b) == IF a < b THEN a ELSE b

\* C18 as stated: Limit(n) over m entries yields the first min(n, m) of them
\* and pulls at most n entries from its upstream.
C18_LimitPullsAtMostN ==
    iter.stage = "Limit" =>
        /\ iter.out = SubSeq(iter.src, 1, Min(iter.limit, Len(iter.src)))
        /\ iter.pulled <= iter.limit

\* entries a and b compare equal under the comparator
SameRank(order, a, b) == ~Less(order, a, b) /\ ~Less(order, b, a)

\* C19 as stated: OrderBy drains the upstream and yields a permutation of it
\* that is sorted by the comparator, in which entries that compare equal keep
\* the order in which the upstream produced them.
C19_OrderByStable ==
    iter.stage = "OrderBy" =>
        /\ iter.pulled = Len(iter.src)
        /\ Len(iter.out) = Len(iter.src)
        /\ \A e \in {iter.src[i] : i \in 1..Len(iter.src)} :
              \E i \in 1..Len(iter.out) : iter.out[i] = e
        /\ \A i, j \in 1..Len(iter.out) :
              i < j => ~Less(iter.order, iter.out[j], iter.out[i])
        /\ \A i, j \in 1..Len(iter.out) :
              (i < j /\ SameRank(iter.order, iter.out[i], iter.out[j]))
              => Pos(iter.src, iter.out[i]) < Pos(iter.src, iter.out[j])

-----------------------------------------------------------------------------
(* One Range call on a store of any contents.  The producer is a goroutine *)
(* of its own: whenever it can leave its loop it eventually does or sends. *)

InitRange ==
    /\ locks = [c \in Callers |-> <<>>]
    /\ mu = [x \in Stores |-> FreeMutex]
    /\ held = [c \in Callers |-> [x \in Stores |-> "none"]]
    /\ badRelease = FALSE
    /\ trail = [c \in Callers |-> [x \in Stores |-> <<>>]]
    /\ pc = [c \in Callers |-> Idle]
    /\ fatal = "none"
    /\ data = <<>> /\ tx = NoTx /\ txMut = NoCaller
    /\ atBegin = <<>> /\ staged = <<>> /\ touched = FALSE
    /\ NothingScheduled /\ NothingRead /\ EmptyList /\ NothingMore
    /\ iter = NoRun
    /\ rng \in {NewRange(values) : values \in Snapshots}

NextRange == Send \/ ProducerDone \/ ProducerEnd \/ Cancel \/ Leave

SpecRange == InitRange /\ [][NextRange]_vars /\ WF_vars(ProducerDone \/ ProducerEnd)

\* the consumer has left without cancel while elements are unsent
Leaked == rng.cons = "left" /\ ~rng.done /\ rng.left # <<>> /\ rng.state = "run"

\* C20: the producer of Range.  It has terminated (and closed its channel)
\* only if every element of the snapshot was received or cancel was invoked;
\* once every element is received or cancel is invoked it eventually
\* terminates; and when the consumer has stopped receiving early without
\* cancel, the producer stays in its loop forever.
C20_ExitOnlyIfDone ==
    /\ rng.state = "exit" => (rng.left = <<>> \/ rng.done)
    /\ (rng.cons = "left" /\ ~rng.done /\ rng.left # <<>>) => rng.state = "run"

C20_RangeProducer ==
    /\ []C20_ExitOnlyIfDone
    /\ (rng.done \/ rng.left = <<>>) ~> (rng.state = "exit")
    /\ [][Leaked => Leaked']_vars

\* cancel was invoked after one element was received and the consumer has
\* left: the producer has terminated with elements unsent
C20_Witness ==
    /\ rng.state = "exit" /\ rng.done /\ rng.cons = "left"
    /\ rng.got = 1 /\ Len(rng.left) >= 1

-----------------------------------------------------------------------------
-----------------------------------------------------------------------------
(* The scoped helpers.  l.Write, l.WriteE, l.Read and l.ReadE of a store   *)
(* that is locked through a State make a State of their own, lock, defer   *)
(* the unlock and run the unit of work f; m.Write and m.WriteE of the Map  *)
(* that locks itself (and the generic Write and WriteE over a Store) call  *)
(* m.lock(), defer m.unlock() and run f.                                   *)

Helpers == {"Write", "WriteE", "Read", "ReadE", "MapWrite", "MapWriteE"}

\* the helpers that take the shared hold
IsReadHelper(kind) == kind \in {"Read", "ReadE"}

\* the helpers that call m.lock() themselves
IsMapHelper(kind) == kind \in {"MapWrite", "MapWriteE"}

\* the store a helper is a method of
StoreOf(kind) == IF IsMapHelper(kind) THEN TheMap ELSE TheList

\* the ways the unit of work f can end: f of WriteE and ReadE returns an
\* error next to its result, and every f may panic
Outcomes(kind) ==
    IF kind \in {"WriteE", "ReadE", "MapWriteE"}
    THEN {"return", "error", "panic"} ELSE {"return", "panic"}

\* the release runs only when f comes back, as it would without defer
DeferredRelease_notOnPanic(ended) == ended # "panic"

\* defer s.Unlock(l) / defer s.RUnlock(l) / defer m.unlock(): the deferred
\* call runs when the helper returns and when it unwinds
DeferredRelease(ended) == TRUE

\* the helper has what it asked for: Lock, RLock or m.lock() has returned
Acquired(c) ==
    /\ pc[c] = Idle
    /\ CASE IsMapHelper(scope[c].kind) -> held[c][TheMap] = "W"
         [] IsReadHelper(scope[c].kind) -> readCount(c, TheList) > 0
         [] OTHER -> writeCount(c, TheList) > 0

\* s := NewState() of a helper of the List; its s.Lock(l) or s.RLock(l) is
\* the next thing the caller does
HelperCall(c, kind) ==
    /\ fatal = "none" /\ pc[c] = Idle /\ scope[c].kind = "none"
    /\ ~IsMapHelper(kind)
    /\ scope' = [scope EXCEPT ![c] = [kind |-> kind, stage |-> "enter", ended |-> "none"]]
    /\ locks' = [locks EXCEPT ![c] = <<>>]
    /\ UNCHANGED <<mu, held, badRelease, trail, pc, fatal>>
    /\ UNCHANGED <<mapVars, readVars, saveTimer, listVars, iterVars, besideHelper>>

\* a call of State made by the helper caller c is inside
InHelper(c, stage, kinds) ==
    /\ scope[c].stage = stage /\ scope[c].kind \in kinds
    /\ IF stage = "enter" THEN ~Acquired(c)
       ELSE DeferredRelease(scope[c].ended) /\ HasReadLock(c, TheList)

\* s.Lock(l), s.RLock(l) and, deferred, s.Unlock(l), s.RUnlock(l)
HelperLock(c) == InHelper(c, "enter", {"Write", "WriteE"}) /\ Lock(c, TheList)

HelperRLock(c) == InHelper(c, "enter", {"Read", "ReadE"}) /\ RLock(c, TheList)

HelperUnlock(c) == InHelper(c, "exit", {"Write", "WriteE"}) /\ Unlock(c, TheList)

HelperRUnlock(c) == InHelper(c, "exit", {"Read", "ReadE"}) /\ RUnlock(c, TheList)

\* m.lock() of a helper of the Map: the caller stands in front of mut.Lock()
MapWriteCall(c, kind) ==
    /\ fatal = "none" /\ pc[c] = Idle /\ scope[c].kind = "none"
    /\ IsMapHelper(kind)
    /\ scope' = [scope EXCEPT ![c] = [kind |-> kind, stage |-> "enter", ended |-> "none"]]
    /\ pc' = [pc EXCEPT ![c] = At("Write_announce", TheMap)]
    /\ UNCHANGED <<locks, mu, held, badRelease, trail, fatal>>
    /\ UNCHANGED <<mapVars, readVars, saveTimer, listVars, iterVars, besideHelper>>

\* inside m.mut.Lock(): the caller becomes the pending writer
MapWriteAnnounce(c) ==
    /\ fatal = "none" /\ pc[c].at = "Write_announce"
    /\ MutLockAnnounce(c, TheMap, At("Write_wait", TheMap))
    /\ UNCHANGED <<locks, trail, mapVars, restVars, readVars>>

\* m.mut.Lock() returns
MapWriteAcquire(c) ==
    /\ fatal = "none" /\ pc[c].at = "Write_wait"
    /\ MutLock(c, TheMap, Idle)
    /\ UNCHANGED <<locks, trail, mapVars, restVars, readVars>>

\* return f(l): the unit of work runs and ends in one of its ways
Work(c, ended) ==
    /\ fatal = "none" /\ scope[c].stage = "enter" /\ Acquired(c)
    /\ ended \in Outcomes(scope[c].kind)
    /\ scope' = [scope EXCEPT ![c] = [@ EXCEPT !.stage = "exit", !.ended = ended]]
    /\ UNCHANGED <<lockVars, mapVars, readVars, saveTimer, listVars, iterVars, besideHelper>>

\* the deferred m.unlock(): m.mut.Unlock() and notifyChanged(m)
MapWriteUnlock(c) ==
    /\ fatal = "none" /\ pc[c] = Idle
    /\ scope[c].stage = "exit" /\ IsMapHelper(scope[c].kind)
    /\ DeferredRelease(scope[c].ended) /\ held[c][TheMap] # "none"
    /\ MutUnlock(c, TheMap, Idle)
    /\ saveTimer' = notifyChanged(TheMap)
    /\ UNCHANGED <<locks, trail, mapVars, readVars, listVars, iterVars, moreVars>>

\* nothing is left of the deferred call
Released(c) ==
    /\ pc[c] = Idle
    /\ IF IsMapHelper(scope[c].kind) THEN held[c][TheMap] = "none"
       ELSE ~HasReadLock(c, TheList)

\* the helper returns to its caller, or its panic goes on to the caller
HelperReturn(c) ==
    /\ fatal = "none" /\ scope[c].stage = "exit"
    /\ DeferredRelease(scope[c].ended) => Released(c)
    /\ pc[c] = Idle
    /\ scope' = [scope EXCEPT ![c] = [@ EXCEPT !.kind = "none", !.stage = "none"]]
    /\ UNCHANGED <<lockVars, mapVars, readVars, saveTimer, listVars, iterVars, besideHelper>>

InitHelper ==
    /\ locks = [c \in Callers |-> <<>>]
    /\ mu = [x \in {TheList, TheMap} |-> FreeMutex]
    /\ held = [c \in Callers |-> [x \in {TheList, TheMap} |-> "none"]]
    /\ badRelease = FALSE
    /\ trail = [c \in Callers |-> [x \in {TheList, TheMap} |-> <<>>]]
    /\ pc = [c \in Callers |-> Idle]
    /\ fatal = "none"
    /\ data = <<>> /\ tx = NoTx /\ txMut = NoCaller
    /\ atBegin = <<>> /\ staged = <<>> /\ touched = FALSE
    /\ saveTimer = [x \in {TheList, TheMap} |-> FALSE]
    /\ NothingRead /\ EmptyList /\ NothingIterated /\ NothingMore

NextHelper ==
    \/ \E c \in Callers, kind \in Helpers : HelperCall(c, kind)
    \/ \E c \in Callers : HelperLock(c)
    \/ \E c \in Callers : LockAnnounce(c)
    \/ \E c \in Callers : LockAcquire(c)
    \/ \E c \in Callers : HelperRLock(c)
    \/ \E c \in Callers : RLockAcquire(c)
    \/ \E c \in Callers, kind \in Helpers : MapWriteCall(c, kind)
    \/ \E c \in Callers : MapWriteAnnounce(c)
    \/ \E c \in Callers : MapWriteAcquire(c)
    \/ \E c \in Callers, ended \in {"return", "error", "panic"} : Work(c, ended)
    \/ \E c \in Callers : HelperUnlock(c)
    \/ \E c \in Callers : UnlockNotify(c)
    \/ \E c \in Callers : HelperRUnlock(c)
    \/ \E c \in Callers : MapWriteUnlock(c)
    \/ \E c \in Callers : HelperReturn(c)

SpecHelper == InitHelper /\ [][NextHelper]_vars

\* the hold a helper asks for
ModeOf(kind) == IF IsReadHelper(kind) THEN "R" ELSE "W"

\* caller c is not inside a helper and holds nothing
C21_NothingLeft ==
    \A c \in Callers :
        scope[c].kind = "none" =>
            /\ \A x \in DOMAIN held[c] : held[c][x] = "none"
            /\ ~HasReadLock(c, TheList)

\* the unit of work starts with the hold in place
C21_WorkStep ==
    \A c \in Callers :
        (scope[c].stage = "enter" /\ scope'[c].stage = "exit") =>
            held[c][StoreOf(scope[c].kind)] = ModeOf(scope[c].kind)

\* C21: the scoped helpers.  The unit of work of Write, WriteE, Read and
\* ReadE runs with the hold the helper asks for, and when the helper has
\* returned or unwound, by return, error or panic, the caller holds nothing;
\* the hold was released once: no release failed and none released a hold
\* the caller did not have.
C21_ScopedHold ==
    /\ [](C21_NothingLeft /\ ~badRelease /\ fatal = "none")
    /\ [][C21_WorkStep]_vars

\* a writing helper of the List has unwound from a panic while the other
\* caller is inside the unit of work of a reading one
C21_Witness ==
    /\ scope["c1"] = [kind |-> "none", stage |-> "none", ended |-> "panic"]
    /\ saveTimer[TheList]
    /\ scope["c2"].kind = "ReadE" /\ scope["c2"].stage = "exit"
    /\ held["c2"][TheList] = "R"

-----------------------------------------------------------------------------
-----------------------------------------------------------------------------
(* The persistence scheduler.  Its timers and its guard are the fields     *)
(* saveTimer, maxSaveTimer and saveOnce of a store, read and written       *)
(* through the store's accessors; what a change notification and the       *)
(* timers do with them is taken from the description of the scheduler.     *)
(* Time passes in ticks, a timer that is due fires before the next tick,   *)
(* and the function of a timer runs in one step.                           *)

\* the stores with a Save method
Savables == {TheMap, TheList}

\* saveTimer is set, and stands in sched[x].quiet ticks before it fires
QuietPending(x) == saveTimer[x]

\* maxSaveTimer is set
MaxPending(x) == sched[x].maxOn

QuietDue(x) == QuietPending(x) /\ sched[x].quiet = 0

MaxDue(x) == MaxPending(x) /\ sched[x].maxLeft = 0

\* the accessor forgets the new guard
setSaveOnce_dropped(r, o) == r

\* setSaveOnce(o): m.saveOnce = o, under timerMut
setSaveOnce(r, o) == [r EXCEPT !.once = o]

\* setMaxSaveTimer(t): m.maxSaveTimer = t, under timerMut; t is nil or a timer
\* that fires in left ticks
setMaxSaveTimer(r, on, left) == [r EXCEPT !.maxOn = on, !.maxLeft = left]

\* the notification belongs to the burst of the one before it: it arrives
\* within the quiet period that follows that one
Continues(x) == sched[x].age < QuietPeriod \/ QuietPending(x)

\* the history of the burst after a notification
NoteBurst(r, x) ==
    IF Continues(x) THEN [r EXCEPT !.age = 0, !.dirty = TRUE]
    ELSE [r EXCEPT !.age = 0, !.dirty = TRUE, !.saves = 0, !.early = FALSE,
                   !.maxFired = FALSE]

\* a change notification of store x: a new guard, the quiet-period timer
\* reset, and the max-wait timer started if none is pending
Notified(x) ==
    /\ fatal = "none"
    /\ saveTimer' = notifyChanged(x)
    /\ LET r == setSaveOnce(NoteBurst(sched[x], x), "fresh")
           q == [r EXCEPT !.quiet = QuietPeriod]
       IN  sched' = [sched EXCEPT
                        ![x] = IF MaxPending(x) THEN q
                               ELSE setMaxSaveTimer(q, TRUE, MaxWait)]
    /\ UNCHANGED <<lockVars, mapVars, readVars, listVars, iterVars, besideSched>>

\* once.Do(Save): the write happens if the guard has not been used
Writes(r) == r.once = "fresh"

\* the record of the scheduler after once.Do(Save), called when the last
\* notification is age ticks old
DoSave(r) ==
    IF Writes(r)
    THEN [r EXCEPT !.once = "done", !.dirty = FALSE,
                   !.saves = IF @ < 2 THEN @ + 1 ELSE @,
                   !.early = @ \/ r.age < QuietPeriod]
    ELSE r

\* the quiet-period timer fires: Save, through the guard
QuietFire(x) ==
    /\ fatal = "none" /\ QuietDue(x)
    /\ saveTimer' = [saveTimer EXCEPT ![x] = FALSE]
    /\ sched' = [sched EXCEPT ![x] = DoSave(@)]
    /\ UNCHANGED <<lockVars, mapVars, readVars, listVars, iterVars, besideSched>>

\* the max-wait timer fires: Save, through the guard, and both timers are
\* cleared
MaxFire(x) ==
    /\ fatal = "none" /\ MaxDue(x)
    /\ saveTimer' = [saveTimer EXCEPT ![x] = FALSE]
    /\ sched' = [sched EXCEPT
                    ![x] = setMaxSaveTimer([DoSave(@) EXCEPT !.maxFired = TRUE],
                                           FALSE, 0)]
    /\ UNCHANGED <<lockVars, mapVars, readVars, listVars, iterVars, besideSched>>

\* one tick of the time that a timer stands at after the tick
TickTimer(r, x) ==
    [r EXCEPT !.quiet = IF QuietPending(x) THEN @ - 1 ELSE @,
              !.maxLeft = IF r.maxOn THEN @ - 1 ELSE @,
              !.age = IF @ < QuietPeriod THEN @ + 1 ELSE @]

\* time passes by one tick, for every store
Tick ==
    /\ fatal = "none"
    /\ \A x \in Savables : ~QuietDue(x) /\ ~MaxDue(x)
    /\ \E x \in Savables :
          QuietPending(x) \/ MaxPending(x) \/ sched[x].age < QuietPeriod
    /\ sched' = [x \in Savables |-> TickTimer(sched[x], x)]
    /\ UNCHANGED <<lockVars, mapVars, saveTimer, readVars, listVars, iterVars, besideSched>>

InitSched ==
    /\ locks = [c \in Callers |-> <<>>]
    /\ mu = [x \in Savables |-> FreeMutex]
    /\ held = [c \in Callers |-> [x \in Savables |-> "none"]]
    /\ badRelease = FALSE
    /\ trail = [c \in Callers |-> [x \in Savables |-> <<>>]]
    /\ pc = [c \in Callers |-> Idle]
    /\ fatal = "none"
    /\ data = <<>> /\ tx = NoTx /\ txMut = NoCaller
    /\ atBegin = <<>> /\ staged = <<>> /\ touched = FALSE
    /\ saveTimer = [x \in Savables |-> FALSE]
    /\ NothingRead /\ EmptyList /\ NothingIterated /\ NothingMore

NextSched ==
    \/ \E x \in Savables : Notified(x)
    \/ \E x \in Savables : QuietFire(x)
    \/ \E x \in Savables : MaxFire(x)
    \/ Tick

SpecSched == InitSched /\ [][NextSched]_vars

\* C22 as stated: the notifications of a burst, each within the quiet period
\* of the one before it, get one Save, and that Save is not performed before
\* the quiet period after the last of them has elapsed
C22_OneSavePerBurst ==
    \A x \in Savables : sched[x].saves <= 1 /\ ~sched[x].early

\* a step that writes store x
C22_Write(x) == sched[x].once = "fresh" /\ sched'[x].once = "done"

C22_WriteStep ==
    \A x \in Savables :
        C22_Write(x) =>
            /\ sched[x].dirty
            /\ ~sched'[x].maxFired =>
                  /\ sched[x].age = QuietPeriod
                  /\ sched'[x].saves = 1

\* C22, amended: as long as the max-wait timer has not fired since the first
\* notification of a burst, the burst gets exactly one Save, performed when
\* the quiet period after its last notification has elapsed; a Save is
\* pending for every notification not yet saved, and no timer writes when
\* nothing was notified since the last write, so overlapping triggers never
\* write twice.
C22_Coalesced ==
    /\ [](\A x \in Savables : sched[x].dirty => QuietPending(x))
    /\ [][C22_WriteStep]_vars

\* a burst of the Map was saved once by its quiet-period timer, and the
\* max-wait timer that its first notification started is due with nothing
\* left to save
C22_Witness ==
    /\ sched[TheMap].saves = 1 /\ ~sched[TheMap].early /\ ~sched[TheMap].maxFired
    /\ ~sched[TheMap].dirty /\ sched[TheMap].once = "done"
    /\ MaxDue(TheMap)

-----------------------------------------------------------------------------
-----------------------------------------------------------------------------
(* Store identity: the constructors of the stores, run by any callers at   *)
(* the same time, draw their id from the one counter of the process.       *)

\* the counter is read and not advanced
Add_notStored(n, delta) == n

\* nextStoreID.Add(delta) of the atomic.Uint64: the new value, stored and
\* returned in one indivisible step (the 64 bits of the counter do not wrap
\* within MaxStores constructions, nor within any number a process performs)
Add(n, delta) == n + delta

\* newStoreID(), called in the composite literal of the constructor: caller c
\* has the id in hand and the store is not yet returned
newStoreID(c) ==
    /\ ctor[c] = 0 /\ nextStoreID < MaxStores
    /\ nextStoreID' = Add(nextStoreID, 1)
    /\ ctor' = [ctor EXCEPT ![c] = nextStoreID']
    /\ issued' = Append(issued, nextStoreID')
    /\ UNCHANGED made
    /\ UNCHANGED <<lockVars, mapVars, saveTimer, readVars, listVars, iterVars, besideIds>>

\* the constructor returns the store with its id
Constructed(c) ==
    /\ ctor[c] # 0
    /\ made' = made \cup {ctor[c]}
    /\ ctor' = [ctor EXCEPT ![c] = 0]
    /\ UNCHANGED <<nextStoreID, issued>>
    /\ UNCHANGED <<lockVars, mapVars, saveTimer, readVars, listVars, iterVars, besideIds>>

\* the constructor fails after the id was drawn (the file cannot be read or
\* decoded), or a store is dropped by its owner: its id is gone for good
Dropped(id) ==
    /\ id \in made
    /\ made' = made \ {id}
    /\ UNCHANGED <<nextStoreID, issued, ctor>>
    /\ UNCHANGED <<lockVars, mapVars, saveTimer, readVars, listVars, iterVars, besideIds>>

Failed(c) ==
    /\ ctor[c] # 0
    /\ ctor' = [ctor EXCEPT ![c] = 0]
    /\ UNCHANGED <<nextStoreID, issued, made>>
    /\ UNCHANGED <<lockVars, mapVars, saveTimer, readVars, listVars, iterVars, besideIds>>

InitIds ==
    /\ locks = [c \in Callers |-> <<>>]
    /\ mu = [x \in Stores |-> FreeMutex]
    /\ held = [c \in Callers |-> [x \in Stores |-> "none"]]
    /\ badRelease = FALSE
    /\ trail = [c \in Callers |-> [x \in Stores |-> <<>>]]
    /\ pc = [c \in Callers |-> Idle]
    /\ fatal = "none"
    /\ data = <<>> /\ tx = NoTx /\ txMut = NoCaller
    /\ atBegin = <<>> /\ staged = <<>> /\ touched = FALSE
    /\ NothingScheduled /\ NothingRead /\ EmptyList /\ NothingIterated /\ NothingMore

NextIds ==
    \/ \E c \in Callers : newStoreID(c)
    \/ \E c \in Callers : Constructed(c)
    \/ \E c \in Callers : Failed(c)
    \/ \E id \in 1..MaxStores : Dropped(id)

SpecIds == InitIds /\ [][NextIds]_vars

\* C23: store ids.  The ids drawn so far, in the order in which they were
\* drawn, are strictly increasing: no two constructions, concurrent or not,
\* get the same id, and the id of a store that is gone is not drawn again;
\* every store made and every id in the hand of a constructor is one of them,
\* and two constructors at work hold different ids.
C23_UniqueMonotone ==
    /\ \A i, j \in 1..Len(issued) : i < j => issued[i] < issued[j]
    /\ \A id \in made : \E i \in 1..Len(issued) : issued[i] = id
    /\ \A c, d \in Callers : (c # d /\ ctor[c] # 0) => ctor[c] # ctor[d]

\* both callers are inside a constructor with their ids drawn, after a store
\* was made and dropped
C23_Witness ==
    /\ \A c \in Callers : ctor[c] # 0
    /\ made = {} /\ Len(issued) = 3

-----------------------------------------------------------------------------
-----------------------------------------------------------------------------
(* The clone engine.  A value is a record of its kind k, its number n (of  *)
(* an int; 1 for a synchronization primitive in use, 0 for an unused one), *)
(* the address to of what it refers to (pointer, slice, map; "nil" for the *)
(* nil one) and its parts sub (the fields of a struct with their being     *)
(* exported, the elements of an array, the dynamic value of an interface). *)
(* The cells of cheap are what pointers point to and the backing arrays of *)
(* slices and maps.                                                        *)

Val(k, n, to, sub) == [k |-> k, n |-> n, to |-> to, sub |-> sub]

\* a bool, number or string
Scalar(n) == Val("int", n, "nil", <<>>)

\* a sync.Mutex, RWMutex, WaitGroup, Once or Cond, in use or not
Sync(inUse) == Val("sync", IF inUse THEN 1 ELSE 0, "nil", <<>>)

Ptr(a) == Val("ptr", 0, a, <<>>)

SliceOf(a) == Val("slice", 0, a, <<>>)

MapOf(a) == Val("map", 0, a, <<>>)

Field(exported, v) == [exp |-> exported, v |-> v]

Struct(fields) == Val("struct", 0, "nil", fields)

Array(elems) == Val("array", 0, "nil", [j \in DOMAIN elems |-> Field(TRUE, elems[j])])

NilIface == Val("iface", 0, "nil", <<>>)

Iface(dyn) == Val("iface", 0, "nil", <<Field(TRUE, dyn)>>)

FreeCell == Val("free", 0, "nil", <<>>)

\* reflect.New, reflect.MakeSlice, reflect.MakeMap: a cell not in use
Alloc(h) == CHOOSE a \in Addrs : h[a] = FreeCell /\ \A b \in Addrs : h[b] = FreeCell => ~Before(b, a)

\* reflect.Zero(t), for the type of value v
RECURSIVE Zero(_)
Zero(v) ==
    CASE v.k \in {"int", "sync"} -> Val(v.k, 0, "nil", <<>>)
      [] v.k \in {"ptr", "slice", "map"} -> Val(v.k, 0, "nil", <<>>)
      [] v.k = "iface" -> NilIface
      [] OTHER -> [v EXCEPT !.sub = [j \in DOMAIN v.sub |-> Field(v.sub[j].exp, Zero(v.sub[j].v))]]

\* what a copy returns: the value, the heap after it, the value being one
\* obtained through an unexported field (which Set, SetMapIndex and Interface
\* refuse with a panic), and ok = FALSE when the copy has panicked
Res(v, h, ro) == [v |-> v, h |-> h, ro |-> ro, ok |-> TRUE]

Panicked(h) == [v |-> FreeCell, h |-> h, ro |-> FALSE, ok |-> FALSE]

\* dst.Set(x), dst.Index(i).Set(x), dst.SetMapIndex(k, x): x.mustBeExported()
Settable(r) == r.ok /\ ~r.ro

\* nonCopyableTypes[t]
isNonCopyableType(v) == v.k = "sync"

\* needsDeepCopy(t), for the type of value v; an array has the type of its
\* elements, all alike
RECURSIVE needsDeepCopy(_)
needsDeepCopy(v) ==
    CASE v.k \in {"ptr", "slice", "map", "iface"} -> TRUE
      [] v.k = "struct" -> \E j \in DOMAIN v.sub : needsDeepCopy(v.sub[j].v)
      [] v.k = "array" -> v.sub # <<>> /\ needsDeepCopy(v.sub[1].v)
      [] OTHER -> FALSE

RECURSIVE deepCopy(_, _, _, _)
RECURSIVE copyElems(_, _, _, _, _, _)
RECURSIVE copyStruct(_, _, _, _)
RECURSIVE copyFields(_, _, _, _, _, _)
RECURSIVE deepCopyUnexportedField(_, _, _, _, _)

\* deepCopy(src): src is addressable or not (addr), obtained through an
\* unexported field or not (ro)
deepCopy(src, addr, ro, h) ==
    IF isNonCopyableType(src) THEN Res(Zero(src), h, FALSE)
    ELSE CASE src.k = "int" -> Res(src, h, ro)
           [] src.k = "ptr" ->
                IF src.to = "nil" THEN Res(Zero(src), h, FALSE)
                ELSE LET r == deepCopy(h[src.to], TRUE, ro, h) IN
                     IF ~Settable(r) THEN Panicked(h)
                     ELSE LET a == Alloc(r.h) IN
                          Res(Ptr(a), [r.h EXCEPT ![a] = r.v], FALSE)
           [] src.k = "slice" ->
                IF src.to = "nil" THEN Res(Zero(src), h, FALSE)
                ELSE LET r == copyElems(h[src.to].sub, 1, TRUE, ro, h, <<>>) IN
                     IF ~r.ok THEN Panicked(h)
                     ELSE LET a == Alloc(r.h) IN
                          Res(SliceOf(a), [r.h EXCEPT ![a] = r.v], FALSE)
           [] src.k = "array" ->
                copyElems(src.sub, 1, addr, ro, h, <<>>)
           [] src.k = "map" ->
                IF src.to = "nil" THEN Res(Zero(src), h, FALSE)
                ELSE LET r == copyElems(h[src.to].sub, 1, FALSE, ro, h, <<>>) IN
                     \* deepCopy(key) of a key of a map obtained through an
                     \* unexported field is refused by SetMapIndex
                     IF ~r.ok \/ (ro /\ h[src.to].sub # <<>>) THEN Panicked(h)
                     ELSE LET a == Alloc(r.h) IN
                          Res(MapOf(a), [r.h EXCEPT ![a] = r.v], FALSE)
           [] src.k = "struct" -> copyStruct(src, addr, ro, h)
           [] src.k = "iface" ->
                IF src.sub = <<>> THEN Res(Zero(src), h, FALSE)
                ELSE LET r == deepCopy(src.sub[1].v, FALSE, ro, h) IN
                     IF ~r.ok THEN Panicked(h) ELSE Res(Iface(r.v), r.h, r.ro)

\* for i := 0; i < src.Len(); i++ { dst.Index(i).Set(deepCopy(src.Index(i))) }
\* and the loop over src.MapKeys(): the new array of the elements
copyElems(elems, i, addr, ro, h, out) ==
    IF i > Len(elems) THEN Res(Array(out), h, FALSE)
    ELSE LET r == deepCopy(elems[i].v, addr, ro, h) IN
         IF ~Settable(r) THEN Panicked(h)
         ELSE copyElems(elems, i + 1, addr, ro, r.h, Append(out, r.v))

\* copyStruct(src): the memory of src is copied as it is (temp.Set(src) comes
\* first when src is not addressable), and then the fields are fixed up
copyStruct(src, addr, ro, h) ==
    IF ~addr /\ ro THEN Panicked(h)
    ELSE copyFields(src.sub, src.sub, 1, addr, ro, h)

\* the loop of copyStruct over the fields: dst holds the copied memory
copyFields(src, dst, i, addr, ro, h) ==
    IF i > Len(src) THEN Res(Struct(dst), h, FALSE)
    ELSE LET field == src[i].v IN
         IF isNonCopyableType(field)
         THEN copyFields(src, [dst EXCEPT ![i].v = Zero(field)], i + 1, addr, ro, h)
         ELSE IF needsDeepCopy(field)
         THEN LET r == IF src[i].exp
                       THEN deepCopy(field, addr, ro, h)
                       ELSE deepCopyUnexportedField(dst[i].v, field, addr, TRUE, h)
              IN  IF ~Settable(r) THEN Panicked(h)
                  ELSE copyFields(src, [dst EXCEPT ![i].v = r.v], i + 1, addr, ro, r.h)
         ELSE copyFields(src, dst, i + 1, addr, ro, h)

\* deepCopyUnexportedField(dst, src): dst is addressable and holds before;
\* what dst holds afterwards
deepCopyUnexportedField(before, src, addr, ro, h) ==
    CASE src.k = "ptr" ->
            IF src.to = "nil" THEN Res(before, h, FALSE)
            ELSE LET r == IF ~ro
                          THEN deepCopy(h[src.to], TRUE, ro, h)
                          ELSE deepCopyUnexportedField(Zero(h[src.to]), h[src.to],
                                                       TRUE, ro, h)
                 IN  IF ~Settable(r) THEN Panicked(h)
                     ELSE LET a == Alloc(r.h) IN
                          Res(Ptr(a), [r.h EXCEPT ![a] = r.v], FALSE)
      [] src.k = "slice" ->
            \* newSlice.UnsafeAddr() of the value of reflect.MakeSlice, which is
            \* not addressable
            IF src.to = "nil" THEN Res(before, h, FALSE) ELSE Panicked(h)
      [] src.k = "map" ->
            IF src.to = "nil" THEN Res(before, h, FALSE)
            ELSE LET r == copyElems(h[src.to].sub, 1, FALSE, ro, h, <<>>) IN
                 IF ~r.ok \/ (ro /\ h[src.to].sub # <<>>) THEN Panicked(h)
                 ELSE LET a == Alloc(r.h) IN
                      Res(MapOf(a), [r.h EXCEPT ![a] = r.v], FALSE)
      [] src.k = "struct" ->
            LET r == copyStruct(src, addr, ro, h) IN
            IF ~r.ok THEN Panicked(h) ELSE Res(r.v, r.h, FALSE)
      [] OTHER -> Res(before, h, FALSE)

\* the function of CopyConstructor[T](): deepCopy(reflect.ValueOf(src))
CopyConstructor(src, h) == deepCopy(src, FALSE, FALSE, h)

\* the cells that value v refers to, directly or through other cells
RECURSIVE Reach(_, _)
Reach(v, h) ==
    UNION ({IF v.to = "nil" THEN {} ELSE {v.to} \cup Reach(h[v.to], h)}
           \cup {Reach(v.sub[j].v, h) : j \in DOMAIN v.sub})

\* value v with what it refers to in place of the addresses
RECURSIVE Unfold(_, _)
Unfold(v, h) ==
    IF v.to # "nil"
    THEN [v EXCEPT !.to = "set", !.sub = <<Field(TRUE, Unfold(h[v.to], h))>>]
    ELSE [v EXCEPT !.sub = [j \in DOMAIN v.sub |->
                                Field(v.sub[j].exp, Unfold(v.sub[j].v, h))]]

\* a synchronization primitive in use is part of value v, or of what v
\* refers to
RECURSIVE HasSyncInUse(_, _)
HasSyncInUse(v, h) ==
    \/ v.k = "sync" /\ v.n = 1
    \/ v.to # "nil" /\ HasSyncInUse(h[v.to], h)
    \/ \E j \in DOMAIN v.sub : HasSyncInUse(v.sub[j].v, h)

\* value v after an assignment to every number in it
RECURSIVE Smash(_)
Smash(v) ==
    IF v.k = "int" THEN [v EXCEPT !.n = 9]
    ELSE [v EXCEPT !.sub = [j \in DOMAIN v.sub |-> Field(v.sub[j].exp, Smash(v.sub[j].v))]]

\* the cells in use before any clone is made: an int, the backing array of a
\* slice, the backing array of a map, and a struct with a mutex in use
FirstHeap ==
    [a \in Addrs |->
        CASE a = "p1" -> Scalar(1)
          [] a = "p2" -> Array(<<Scalar(1), Scalar(2)>>)
          [] a = "p3" -> Array(<<Scalar(1)>>)
          [] a = "p4" -> Struct(<<Field(TRUE, Sync(TRUE)), Field(FALSE, Ptr("p1"))>>)
          [] OTHER -> FreeCell]

\* the types and values of the fields that are cloned
Shapes ==
    {Scalar(1), Ptr("p1"), Ptr("p4"), Ptr("nil"), Iface(Ptr("p1")), NilIface,
     Sync(TRUE), SliceOf("p2"), SliceOf("nil"), MapOf("p3"), MapOf("nil"),
     Array(<<Ptr("p1")>>), Array(<<Sync(TRUE)>>),
     Struct(<<Field(TRUE, Sync(TRUE)), Field(TRUE, Scalar(1))>>),
     Struct(<<Field(TRUE, Sync(TRUE)), Field(TRUE, Ptr("p1"))>>)}

\* the values that are cloned: a value of every shape by itself, and the
\* structs of one and of two fields, exported or not, of every shape
Sources ==
    Shapes
    \cup {Struct(<<Field(e, v)>>) : e \in BOOLEAN, v \in Shapes}
    \cup {Struct(<<Field(e[1], v[1]), Field(e[2], v[2])>>) :
             e \in BOOLEAN \X BOOLEAN, v \in Shapes \X Shapes}

NotCloned(src) ==
    [st |-> "made", src |-> src, dst |-> FreeCell, was |-> <<>>, poked |-> "none"]

\* clone(src): the clone, or the panic of the clone engine
Clone ==
    /\ cl.st = "made"
    /\ LET r == CopyConstructor(cl.src, cheap) IN
       IF r.ok
       THEN /\ cheap' = r.h
            /\ cl' = [cl EXCEPT !.st = "cloned", !.dst = r.v,
                                !.was = <<Unfold(cl.src, cheap), Unfold(r.v, r.h)>>]
       ELSE /\ cl' = [cl EXCEPT !.st = "panicked"]
            /\ UNCHANGED cheap
    /\ UNCHANGED <<lockVars, mapVars, saveTimer, readVars, listVars, iterVars, besideClone>>

\* the owner of the clone assigns through it, to the cell at a
MutateClone(a) ==
    /\ cl.st = "cloned" /\ cl.poked \in {"none", "clone"}
    /\ a \in Reach(cl.dst, cheap) /\ Smash(cheap[a]) # cheap[a]
    /\ cheap' = [cheap EXCEPT ![a] = Smash(@)]
    /\ cl' = [cl EXCEPT !.poked = "clone"]
    /\ UNCHANGED <<lockVars, mapVars, saveTimer, readVars, listVars, iterVars, besideClone>>

\* the owner of the source assigns through it, to the cell at a
MutateSource(a) ==
    /\ cl.st = "cloned" /\ cl.poked \in {"none", "source"}
    /\ a \in Reach(cl.src, cheap) /\ Smash(cheap[a]) # cheap[a]
    /\ cheap' = [cheap EXCEPT ![a] = Smash(@)]
    /\ cl' = [cl EXCEPT !.poked = "source"]
    /\ UNCHANGED <<lockVars, mapVars, saveTimer, readVars, listVars, iterVars, besideClone>>

InitClone ==
    /\ locks = [c \in Callers |-> <<>>]
    /\ mu = [x \in Stores |-> FreeMutex]
    /\ held = [c \in Callers |-> [x \in Stores |-> "none"]]
    /\ badRelease = FALSE
    /\ trail = [c \in Callers |-> [x \in Stores |-> <<>>]]
    /\ pc = [c \in Callers |-> Idle]
    /\ fatal = "none"
    /\ data = <<>> /\ tx = NoTx /\ txMut = NoCaller
    /\ atBegin = <<>> /\ staged = <<>> /\ touched = FALSE
    /\ NothingScheduled /\ NothingRead /\ EmptyList /\ NothingIterated
    /\ scope = [c \in Callers |-> NoScope]
    /\ sched = [x \in {TheMap, TheList} |-> NoSched]
    /\ NoIds
    /\ hs = <<>> /\ hh = <<>>
    /\ cheap = FirstHeap
    /\ cl \in {NotCloned(src) : src \in Sources}

NextClone ==
    \/ Clone
    \/ \E a \in Addrs : MutateClone(a)
    \/ \E a \in Addrs : MutateSource(a)

SpecClone == InitClone /\ [][NextClone]_vars

\* value v is of the shapes that the independence of the clone is stated
\* for: scalars, pointers, slices, maps, structs and interfaces, and no array
RECURSIVE NoArray(_)
NoArray(v) == v.k # "array" /\ \A j \in DOMAIN v.sub : NoArray(v.sub[j].v)

\* C24 as stated: the clone of a value made of scalars, pointers, slices,
\* maps, structs with exported and unexported fields and interfaces shares
\* no cell with its source, so that after assignments through the clone the
\* source is what it was, and after assignments through the source the clone
\* is what it was.
C24_Independent ==
    (cl.st = "cloned" /\ NoArray(cl.src)) =>
        /\ Reach(cl.src, cheap) \cap Reach(cl.dst, cheap) = {}
        /\ cl.poked = "clone" => Unfold(cl.src, cheap) = cl.was[1]
        /\ cl.poked = "source" => Unfold(cl.dst, cheap) = cl.was[2]

\* C25 as stated: no synchronization primitive of the clone, wherever it
\* stands in it, has the state of use of the source's: all are unused.
C25_SyncZeroed ==
    cl.st = "cloned" => ~HasSyncInUse(cl.dst, cheap)

-----------------------------------------------------------------------------
-----------------------------------------------------------------------------
(* The transaction with the storage of its values.  tx.changes maps a key  *)
(* to a pointer: nil, or the address of the variable (cell) that holds the *)
(* staged value.  A value of T is a word: the value itself when T is a     *)
(* struct of scalars, the address of an object when T is a pointer type.   *)
(* One caller uses the transaction and nobody else writes the Map.         *)

ElemTypes == {"value", "pointer"}

\* the variables that tx.Get, tx.Find and tx.Set make, in the order made
Cells == <<"h1", "h2", "h3", "h4">>

\* the objects that the elements of a Map of pointers point to
Objs == {"o1", "o2", "o3"}

NilDeref == "invalid memory address or nil pointer dereference"

\* what a value of T shows to a reader: the object, for a pointer
View(t, w) == IF t.elem = "pointer" THEN t.objs[w] ELSE w

\* what m.Get returns for every key
LiveView(t) == [k \in DOMAIN t.data |-> View(t, t.data[k])]

\* nothing was returned by the transaction yet
NoHandle ==
    [op |-> "none", k |-> "-", h |-> "nil", same |-> TRUE, shadowed |-> FALSE,
     replaced |-> FALSE]

\* the history of a transaction just begun on Map t
NoHistory(t) == [first |-> <<>>, ret |-> NoHandle, begin |-> LiveView(t)]

\* newValue := v, or the parameter value of tx.Set: a new variable holding w
NewCell(t, w) ==
    [t EXCEPT !.cells = MapPut(@, Cells[t.next], w), !.next = @ + 1]

\* tx.changes[key] = p, after which the transaction is t; on the nil map of a
\* finished transaction the assignment panics
HStage(t, k, p) ==
    IF hs.st # "open"
    THEN /\ fatal' = NilMapWrite
         /\ UNCHANGED hs
    ELSE /\ hs' = [t EXCEPT !.changes = MapPut(@, k, p)]
         /\ UNCHANGED fatal

\* m.Begin()
HBegin ==
    /\ fatal = "none" /\ hs.st # "open"
    /\ LET t == [hs EXCEPT !.changes = <<>>, !.cells = <<>>, !.next = 1, !.st = "open"]
       IN  hs' = t /\ hh' = NoHistory(t)
    /\ UNCHANGED <<lockVars, mapVars, saveTimer, readVars, listVars, iterVars, besideHandle>>

\* a value of T that the caller makes from v: for a pointer type, the address
\* of a new object
Fresh == CHOOSE o \in Objs : hs.objs[o] = "free"

\* tx.Set(key, value)
HSet(k, v) ==
    /\ fatal = "none" /\ hs.st # "none"
    /\ hs.next <= MaxHandles
    /\ IF hs.elem = "pointer"
       THEN /\ \E o \in Objs : hs.objs[o] = "free"
            /\ HStage(NewCell([hs EXCEPT !.objs[Fresh] = v], Fresh), k, Cells[hs.next])
       ELSE HStage(NewCell(hs, v), k, Cells[hs.next])
    /\ hh' = [hh EXCEPT !.first = MapRemove(@, k), !.ret = NoHandle]
    /\ UNCHANGED <<locks, mu, held, badRelease, trail, pc>>
    /\ UNCHANGED <<mapVars, saveTimer, readVars, listVars, iterVars, besideHandle>>

\* tx.Delete(key)
HDelete(k) ==
    /\ fatal = "none" /\ hs.st # "none"
    /\ HStage(hs, k, Tombstone)
    /\ hh' = [hh EXCEPT !.first = MapRemove(@, k), !.ret = NoHandle]
    /\ UNCHANGED <<locks, mu, held, badRelease, trail, pc>>
    /\ UNCHANGED <<mapVars, saveTimer, readVars, listVars, iterVars, besideHandle>>

\* the history after tx.Get(key) has returned h
Returned(k, h) ==
    [hh EXCEPT !.first = IF k \in DOMAIN @ THEN @ ELSE MapPut(@, k, h),
               !.ret = [op |-> "Get", k |-> k, h |-> h,
                        same |-> (k \in DOMAIN hh.first => hh.first[k] = h),
                        shadowed |-> FALSE, replaced |-> FALSE]]

\* tx.Get(key): the staged pointer (nil for a deleted key), or the address of
\* a new variable that holds the live value and is staged, or nothing
HGet(k) ==
    /\ fatal = "none" /\ hs.st # "none"
    /\ IF k \in DOMAIN hs.changes
       THEN /\ hh' = Returned(k, hs.changes[k])
            /\ UNCHANGED <<hs, fatal>>
       ELSE IF k \in DOMAIN hs.data
       THEN /\ hs.next <= MaxHandles
            /\ HStage(NewCell(hs, hs.data[k]), k, Cells[hs.next])
            /\ hh' = IF hs.st = "open" THEN Returned(k, Cells[hs.next]) ELSE hh
       ELSE /\ hh' = [hh EXCEPT !.ret = NoHandle]
            /\ UNCHANGED <<hs, fatal>>
    /\ UNCHANGED <<locks, mu, held, badRelease, trail, pc>>
    /\ UNCHANGED <<mapVars, saveTimer, readVars, listVars, iterVars, besideHandle>>

\* the staged keys whose pointer is nil
Tombstones(t) == {k \in DOMAIN t.changes : t.changes[k] = Tombstone}

\* the staged upserts whose value satisfies f
StagedHits(t, f) ==
    {k \in DOMAIN t.changes \ Tombstones(t) : View(t, t.cells[t.changes[k]]) \in f}

\* the live entries whose value satisfies f
LiveHits(t, f) == {k \in DOMAIN t.data : View(t, t.data[k]) \in f}

\* tx.Find(f).  The first loop, over tx.changes in the order of the map
\* iteration, calls f(*v): it returns a staged upsert that satisfies f, or
\* panics at a nil pointer met before one.  With nothing staged that
\* satisfies f and no nil pointer, the second loop takes a live entry that
\* satisfies f, copies it to a new variable and stages it.
HFind(f) ==
    /\ fatal = "none" /\ hs.st # "none"
    /\ UNCHANGED <<locks, mu, held, badRelease, trail, pc>>
    /\ UNCHANGED <<mapVars, saveTimer, readVars, listVars, iterVars, besideHandle>>
    /\ \/ /\ Tombstones(hs) # {}
          /\ fatal' = NilDeref
          /\ UNCHANGED <<hs, hh>>
       \/ /\ \E k \in StagedHits(hs, f) :
                hh' = [hh EXCEPT !.ret = [op |-> "Find", k |-> k, h |-> hs.changes[k],
                                          same |-> TRUE, shadowed |-> FALSE,
                                          replaced |-> FALSE]]
          /\ UNCHANGED <<hs, fatal>>
       \/ /\ Tombstones(hs) = {} /\ StagedHits(hs, f) = {}
          /\ IF LiveHits(hs, f) = {}
             THEN /\ hh' = [hh EXCEPT !.ret = NoHandle]
                  /\ UNCHANGED <<hs, fatal>>
             ELSE /\ hs.next <= MaxHandles
                  /\ \E k \in LiveHits(hs, f) :
                        /\ HStage(NewCell(hs, hs.data[k]), k, Cells[hs.next])
                        /\ hh' = IF hs.st # "open" THEN hh
                                 ELSE [hh EXCEPT
                                         !.ret = [op |-> "Find", k |-> k,
                                                  h |-> Cells[hs.next], same |-> TRUE,
                                                  shadowed |-> k \in DOMAIN hs.changes,
                                                  replaced |-> k \in DOMAIN hs.changes]]

\* the caller assigns to a field of the value it got: a.Baz *= 10 through
\* the pointer returned last, which for a Map of pointers is (*a).Baz
HMutate(v) ==
    /\ fatal = "none" /\ hh.ret.h # "nil"
    /\ LET h == hh.ret.h IN
       /\ View(hs, hs.cells[h]) # v
       /\ hs' = IF hs.elem = "pointer"
                THEN [hs EXCEPT !.objs[hs.cells[h]] = v]
                ELSE [hs EXCEPT !.cells[h] = v]
    /\ UNCHANGED hh
    /\ UNCHANGED <<lockVars, mapVars, saveTimer, readVars, listVars, iterVars, besideHandle>>

\* the loop of Commit over tx.changes
RECURSIVE HApply(_, _, _)
HApply(t, d, ks) ==
    IF ks = {} THEN d
    ELSE LET k == CHOOSE j \in ks : TRUE IN
         HApply(t, IF t.changes[k] = Tombstone THEN MapRemove(d, k)
                   ELSE MapPut(d, k, t.cells[t.changes[k]]), ks \ {k})

\* tx.Commit()
HCommit ==
    /\ fatal = "none" /\ hs.st # "none"
    /\ hs' = IF hs.st # "open" THEN hs
             ELSE [hs EXCEPT !.data = HApply(hs, @, DOMAIN hs.changes),
                             !.changes = <<>>, !.st = "committed"]
    /\ UNCHANGED hh
    /\ UNCHANGED <<lockVars, mapVars, saveTimer, readVars, listVars, iterVars, besideHandle>>

\* tx.Rollback()
HRollback ==
    /\ fatal = "none" /\ hs.st # "none"
    /\ hs' = [hs EXCEPT !.changes = <<>>,
                        !.st = IF @ = "open" THEN "rolledBack" ELSE @]
    /\ UNCHANGED hh
    /\ UNCHANGED <<lockVars, mapVars, saveTimer, readVars, listVars, iterVars, besideHandle>>

\* a Map of values, or a Map of pointers to objects of its own, loaded
FirstMaps ==
    {[elem |-> "value", data |-> d, objs |-> [o \in Objs |-> "free"],
      changes |-> <<>>, cells |-> <<>>, next |-> 1, st |-> "none"] : d \in AllMaps}
    \cup
    {[elem |-> "pointer", data |-> [k \in ks |-> IF k = "a" THEN "o1" ELSE "o2"],
      objs |-> [o \in Objs |-> IF o = "o3" THEN "free" ELSE vs[o]],
      changes |-> <<>>, cells |-> <<>>, next |-> 1, st |-> "none"] :
         ks \in SUBSET Keys, vs \in [{"o1", "o2"} -> Values]}

InitHandle ==
    /\ locks = [c \in Callers |-> <<>>]
    /\ mu = [x \in Stores |-> FreeMutex]
    /\ held = [c \in Callers |-> [x \in Stores |-> "none"]]
    /\ badRelease = FALSE
    /\ trail = [c \in Callers |-> [x \in Stores |-> <<>>]]
    /\ pc = [c \in Callers |-> Idle]
    /\ fatal = "none"
    /\ data = <<>> /\ tx = NoTx /\ txMut = NoCaller
    /\ atBegin = <<>> /\ staged = <<>> /\ touched = FALSE
    /\ NothingScheduled /\ NothingRead /\ EmptyList /\ NothingIterated
    /\ scope = [c \in Callers |-> NoScope]
    /\ sched = [x \in {TheMap, TheList} |-> NoSched]
    /\ NoIds /\ NoClone
    /\ hs \in FirstMaps
    /\ hh = NoHistory(hs)

NextHandle ==
    \/ HBegin
    \/ \E k \in Keys, v \in Values : HSet(k, v)
    \/ \E k \in Keys : HDelete(k)
    \/ \E k \in Keys : HGet(k)
    \/ \E f \in Predicates : HFind(f)
    \/ \E v \in Values : HMutate(v)
    \/ HCommit
    \/ HRollback

SpecHandle == InitHandle /\ [][NextHandle]_vars

\* C26 as stated: tx.Get(k) returns the pointer that the first tx.Get(k)
\* returned, as long as the caller has not staged k anew with tx.Set or
\* tx.Delete, so that what was assigned through it is what later tx.Get see
\* and what Commit writes.
C26_SameHandle == hh.ret.op = "Get" => hh.ret.same

\* C27 as stated: whatever the caller assigns through the pointers that
\* tx.Get and tx.Find return, m.Get returns for every key what it returned
\* when the transaction was begun, until Commit, and for good after Rollback.
C27_PrivateCopy ==
    hs.st \in {"open", "rolledBack"} => LiveView(hs) = hh.begin

\* C28 as stated: tx.Find looks at a live entry only if its key is not
\* staged: it does not return the live value of a staged key and does not
\* put it in the place of what was staged.
C28_FindSkipsShadowed ==
    hh.ret.op = "Find" => (~hh.ret.shadowed /\ ~hh.ret.replaced)

-----------------------------------------------------------------------------
-----------------------------------------------------------------------------
(* The single-operation methods of the Map, called by any callers at the   *)
(* same time                                                               *)

\* m.Overwrite(values): m.data = values
MapOverwrite(c, d) ==
    /\ fatal = "none" /\ pc[c] = Idle
    /\ data' = d
    /\ touched' = TRUE
    /\ UNCHANGED <<lockVars, tx, txMut, atBegin, staged, restVars, readVars>>

NextMethods ==
    \/ \E c \in Callers : MapSet(c)
    \/ \E c \in Callers : MapDelete(c)
    \/ \E c \in Callers : MapLockAnnounce(c)
    \/ \E c \in Callers : MapLockAcquire(c)
    \/ \E c \in Callers, k \in Keys, v \in Values : MapSetBody(c, k, v)
    \/ \E c \in Callers, k \in Keys : MapDeleteBody(c, k)
    \/ \E c \in Callers : MapRead(c)
    \/ \E c \in Callers : SelectRead(c)
    \/ \E c \in Callers, d \in AllMaps : MapOverwrite(c, d)

SpecMethods == InitMap /\ [][NextMethods]_vars

\* a step that writes the container is taken by a caller that has m.mut
\* locked, and a step that reads it is taken while no caller has
C29_AccessStep ==
    /\ data' # data => \E c \in Callers : held[c][TheMap] = "W"
    /\ seen' # seen => \A c \in Callers : held[c][TheMap] # "W"

\* C29 as stated: Get, Find, FindAll, Has, Set, Delete, Overwrite and the
\* iteration of Select touch the container of the Map only under its mutex:
\* a write only with the exclusive hold, a read never next to it.
C29_UnderMutex == [][C29_AccessStep]_vars

-----------------------------------------------------------------------------
(* The upgrade of State.Lock and what the caller read before it            *)

\* caller c has read interest in x and no write interest
ReadOnlyInterest(c, x) == readCount(c, x) > 0 /\ writeCount(c, x) = 0

\* caller c is inside its upgrading Lock(x), past mut.RUnlock()
InUpgrade(c, x) ==
    /\ pc[c].at \in {"Lock_announce", "Lock_wait"} /\ pc[c].x = x
    /\ readCount(c, x) > 0

NoOtherWriter(c, x) == \A d \in Callers \ {c} : held[d][x] # "W"

\* C30 as stated: from the return of RLock(x) to the return of the upgrading
\* Lock(x) no other caller obtains the exclusive hold on x.
C30_UpgradeKeepsRead ==
    \A c \in Callers, x \in Stores :
        (ReadOnlyInterest(c, x) /\ (~Inside(c, x) \/ InUpgrade(c, x)))
            => NoOtherWriter(c, x)

\* mut.Lock() of an upgrade returns to c
C30_UpgradeReturns(c, x) ==
    /\ InUpgrade(c, x) /\ pc[c].at = "Lock_wait" /\ pc'[c] = Idle
    /\ fatal' = "none"

\* C30, amended: from the return of RLock(x) to the call of the upgrading
\* Lock(x) the caller has the shared hold and no other caller has the
\* exclusive one; the upgrade gives the shared hold up before it waits, and
\* when it returns the caller has the exclusive hold and no other caller
\* has any hold on x.
C30_ReadValidUntilLock ==
    /\ [](\A c \in Callers, x \in Stores :
            (ReadOnlyInterest(c, x) /\ ~Inside(c, x))
                => (held[c][x] = "R" /\ NoOtherWriter(c, x)))
    /\ [][\A c \in Callers, x \in Stores :
            C30_UpgradeReturns(c, x) =>
                /\ held'[c][x] = "W" /\ writeCount(c, x)' = 1
                /\ \A d \in Callers \ {c} : held'[d][x] = "none"]_vars

\* the upgrade of c1 has returned after c2 made calls of its own on x
C30_Witness ==
    /\ trail["c1"]["x"] = <<"RLock", "Lock">> /\ pc["c1"] = Idle
    /\ held["c1"]["x"] = "W" /\ readCount("c1", "x") = 1
    /\ trail["c2"]["x"] = Off /\ held["c2"]["x"] = "none"

-----------------------------------------------------------------------------
-----------------------------------------------------------------------------
(* Two States that upgrade on the same store: each caller makes the calls  *)
(* RLock(x); Lock(x); Unlock(x); RUnlock(x) on the Map, in that order      *)

\* the call of c keeps to the sequence
InSequence(c) == trail'[c][TheMap] # Off

UpgradeCall(c) ==
    \/ RLock(c, TheMap) /\ InSequence(c)
    \/ Lock(c, TheMap) /\ InSequence(c)

\* the Unlock that follows the return of the upgrading Lock
UpgradeUnlock(c) == Unlock(c, TheMap) /\ InSequence(c)

\* the RUnlock of the read lock taken before the upgrade
UpgradeRUnlock(c) == RUnlock(c, TheMap) /\ InSequence(c)

\* the store beside the Map
OtherStore == CHOOSE x \in Stores : x # TheMap

\* meanwhile the caller may take one read lock on the other store and give
\* it back; no caller locks that store for writing
UpgradeAside(c) ==
    \/ trail[c][OtherStore] = <<>> /\ RLock(c, OtherStore)
    \/ readCount(c, OtherStore) > 0 /\ RUnlock(c, OtherStore)

\* the steps inside the calls: the mutex operations return when they can
UpgradeStep(c) ==
    \/ RLockAcquire(c)
    \/ LockAnnounce(c)
    \/ LockAcquire(c)
    \/ UnlockNotify(c)
    \/ UnlockReacquire(c)

NextUpgrade ==
    \/ \E c \in Callers : UpgradeCall(c)
    \/ \E c \in Callers : UpgradeUnlock(c)
    \/ \E c \in Callers : UpgradeRUnlock(c)
    \/ \E c \in Callers : UpgradeAside(c)
    \/ \E c \in Callers : UpgradeStep(c)

\* a blocked mutex operation returns once it can and stays able to; a caller
\* whose Lock has returned calls Unlock
SpecUpgrade ==
    /\ InitLock /\ [][NextUpgrade]_vars
    /\ \A c \in Callers : WF_vars(UpgradeStep(c)) /\ WF_vars(UpgradeUnlock(c))

\* both callers are inside their upgrading Lock(x)
BothUpgrading == \A c \in Callers : InUpgrade(c, TheMap)

\* the upgrading Lock(x) of c has returned
UpgradeDone(c) == Len(trail[c][TheMap]) >= 2 /\ ~Inside(c, TheMap)

\* C31 as stated: when both callers upgrade, the Lock of each returns,
\* given only that each calls Unlock after its Lock has returned.
C31_BothUpgradesComplete ==
    \A c \in Callers : BothUpgrading ~> UpgradeDone(c)

\* caller c stands outside any call with nothing but its read lock on x
KeepsReadLock(c) == ReadOnlyInterest(c, TheMap) /\ pc[c] = Idle

\* C31, amended: when both callers upgrade, the Lock of each returns, given
\* that each calls Unlock after its Lock has returned and then RUnlock for
\* the read lock it is left with.
C31_BothCompleteIfReleased ==
    (\A c \in Callers : []<>~KeepsReadLock(c))
        => (\A c \in Callers : BothUpgrading ~> UpgradeDone(c))

\* both callers have made all four calls, and both Locks have returned
C31_Witness ==
    \A c \in Callers :
        /\ trail[c][TheMap] = UpDown /\ pc[c] = Idle
        /\ held[c][TheMap] = "none"

-----------------------------------------------------------------------------
(* The transaction after Commit or Rollback *)

\* Commit or Rollback has run to its end
Terminal == tx.begun /\ (tx.committed \/ tx.rolledBack) /\ txMut = NoCaller

\* a step of a call on the terminal transaction: it does not end in the
\* nil-map panic, and what it does to the transaction it does not do to the
\* live Map
C32_TerminalStep ==
    Terminal => /\ fatal' # NilMapWrite
                /\ (tx' # tx /\ tx'.begun = tx.begun /\ tx' # NewTx) => data' = data

\* C32: after Commit or Rollback every further Get, Find, Has, Set, Delete,
\* Select, Commit or Rollback of the transaction returns without a fatal
\* failure and leaves the live Map as it is.
C32_TerminalInert == [][C32_TerminalStep]_vars

-----------------------------------------------------------------------------
(* The transaction after tx.Delete(k) *)

\* tx.Get has returned found = true with the nil pointer that tx.Delete
\* staged (hh.ret is only written with op "Get" where Get sets found)
GetFoundDeleted == hh.ret.op = "Get" /\ hh.ret.h = Tombstone

\* tx.Find has returned an entry of a key that has a staged deletion
FindReturnedDeleted ==
    hh.ret.op = "Find" /\ hs.st = "open" /\ hh.ret.k \in Tombstones(hs)

\* C33: after tx.Delete(k) in an open transaction tx.Get(k) reports not
\* found, and tx.Find completes without failure and returns no entry of k.
C33_DeletedIsGone ==
    /\ ~GetFoundDeleted
    /\ fatal # NilDeref
    /\ ~FindReturnedDeleted

-----------------------------------------------------------------------------
-----------------------------------------------------------------------------
(* tx.Select(): the iterator function, run by one caller at a time.  iter  *)
(* holds the run: the loop it is in, the keys the loop has not come to,    *)
(* who consumes it, and what happened after the consumer stopped.          *)

\* a for-range statement over the iterator, or a call of the iterator
\* function with a yield function of the caller's own
Consumers == {"range", "call"}

\* the runtime's panic when yield is called after the loop body has ended
RangeContinued == "range function continued iteration after function for loop body returned false"

\* the live keys that the second loop does not skip
Unshadowed == DOMAIN data \ DOMAIN tx.changes

\* the run after yield(key, value) has returned go
Yielded(r, k, go) ==
    [r EXCEPT !.left = @ \ {k},
              !.late = IF r.stopped THEN @ + 1 ELSE @,
              !.stopped = @ \/ ~go]

SelectFrame ==
    UNCHANGED <<locks, mu, held, badRelease, trail, data, tx, atBegin, staged,
                touched, saveTimer, readVars, listVars, rng, moreVars>>

\* the iterator function is called: tx.mut.Lock()
SelectStart(c, by) ==
    /\ fatal = "none" /\ pc[c] = Idle /\ tx.begun /\ txMut = NoCaller
    /\ txMut' = c
    /\ iter' = [stage |-> "staged", by |-> by, left |-> DOMAIN tx.changes,
                stopped |-> FALSE, late |-> 0]
    /\ pc' = [pc EXCEPT ![c] = At("Select_staged", TheMap)]
    /\ UNCHANGED fatal
    /\ SelectFrame

\* one round of the first loop: if !yield(key, value) { break }, and the
\* break leads to the second loop
SelectStaged(c, k, go) ==
    /\ fatal = "none" /\ pc[c].at = "Select_staged"
    /\ k \in iter.left
    /\ iter' = IF go THEN Yielded(iter, k, go)
               ELSE [Yielded(iter, k, go) EXCEPT !.stage = "live", !.left = Unshadowed]
    /\ pc' = IF go THEN pc ELSE [pc EXCEPT ![c] = At("Select_live", TheMap)]
    /\ UNCHANGED <<fatal, txMut>>
    /\ SelectFrame

\* the first loop has come to its end
SelectStagedEnd(c) ==
    /\ fatal = "none" /\ pc[c].at = "Select_staged"
    /\ iter.left = {}
    /\ iter' = [iter EXCEPT !.stage = "live", !.left = Unshadowed]
    /\ pc' = [pc EXCEPT ![c] = At("Select_live", TheMap)]
    /\ UNCHANGED <<fatal, txMut>>
    /\ SelectFrame

\* one round of the second loop: if !yield(key, &value) { break }, and the
\* break leads to the return and the deferred tx.mut.Unlock().  A yield of a
\* for-range statement that has ended panics; the deferred unlock runs
SelectLive(c, k, go) ==
    /\ fatal = "none" /\ pc[c].at = "Select_live"
    /\ k \in iter.left
    /\ IF iter.stopped /\ iter.by = "range"
       THEN /\ fatal' = RangeContinued
            /\ iter' = [Yielded(iter, k, FALSE) EXCEPT !.stage = "done"]
            /\ txMut' = NoCaller
            /\ pc' = [pc EXCEPT ![c] = Idle]
       ELSE /\ iter' = IF go THEN Yielded(iter, k, go)
                      ELSE [Yielded(iter, k, go) EXCEPT !.stage = "done"]
            /\ txMut' = IF go THEN txMut ELSE NoCaller
            /\ pc' = IF go THEN pc ELSE [pc EXCEPT ![c] = Idle]
            /\ UNCHANGED fatal
    /\ SelectFrame

\* the second loop has come to its end: return, tx.mut.Unlock()
SelectEnd(c) ==
    /\ fatal = "none" /\ pc[c].at = "Select_live"
    /\ iter.left = {}
    /\ iter' = [iter EXCEPT !.stage = "done"]
    /\ txMut' = NoCaller
    /\ pc' = [pc EXCEPT ![c] = Idle]
    /\ UNCHANGED fatal
    /\ SelectFrame

NextSelect ==
    \/ \E c \in Callers : Begin(c)
    \/ \E c \in Callers, k \in Keys, v \in Values : TxSet(c, k, v)
    \/ \E c \in Callers, k \in Keys : TxDelete(c, k)
    \/ \E c \in Callers, by \in Consumers : SelectStart(c, by)
    \/ \E c \in Callers, k \in Keys, go \in BOOLEAN : SelectStaged(c, k, go)
    \/ \E c \in Callers : SelectStagedEnd(c)
    \/ \E c \in Callers, k \in Keys, go \in BOOLEAN : SelectLive(c, k, go)
    \/ \E c \in Callers : SelectEnd(c)

SpecSelect == InitMap /\ [][NextSelect]_vars

\* C34: once the consumer of tx.Select has stopped, in the staged entries or
\* in the live ones, yield is called for no further entry, and when the
\* iterator has returned the transaction's lock is free.
C34_EarlyStop ==
    iter.stage # "none" =>
        /\ iter.late = 0 /\ fatal # RangeContinued
        /\ iter.stage = "done" => txMut = NoCaller

-----------------------------------------------------------------------------
-----------------------------------------------------------------------------
(* The unit of work of m.Write / m.WriteE (and of the generic Write and    *)
(* WriteE) that calls the single-operation methods of the Map it is given  *)

\* caller c is outside any helper, or inside the unit of work of one
MayCall(c) ==
    \/ scope[c].kind = "none"
    \/ scope[c].stage = "enter" /\ Acquired(c)

\* m.Set / m.Delete, called by a caller or by a unit of work
NestedWrite(c) ==
    \/ MayCall(c) /\ MapSet(c)
    \/ MayCall(c) /\ MapDelete(c)

\* m.Get / m.Has, called by a caller or by a unit of work: the caller stands
\* in front of m.mut.RLock()
NestedGet(c) ==
    /\ fatal = "none" /\ pc[c] = Idle /\ MayCall(c)
    /\ pc' = [pc EXCEPT ![c] = At("Get_rlock", TheMap)]
    /\ UNCHANGED <<locks, mu, held, badRelease, trail, fatal, mapVars>>
    /\ UNCHANGED <<restVars, readVars>>

\* m.mut.RLock() returns, the entry is read, the deferred m.mut.RUnlock()
NestedGetRead(c) ==
    /\ fatal = "none" /\ pc[c].at = "Get_rlock"
    /\ CanRLock(TheMap)
    /\ seen' = [by |-> "Get", d |-> data]
    /\ pc' = [pc EXCEPT ![c] = Idle]
    /\ UNCHANGED <<locks, mu, held, badRelease, trail, fatal, mapVars, applied, restVars>>

\* what goes on by itself once called: the mutex operations return when
\* they can, the bodies run, the unit of work ends, the deferred unlock runs
NestedStep(c) ==
    \/ MapWriteAnnounce(c)
    \/ MapWriteAcquire(c)
    \/ MapLockAnnounce(c)
    \/ MapLockAcquire(c)
    \/ \E k \in Keys, v \in Values : MapSetBody(c, k, v)
    \/ \E k \in Keys : MapDeleteBody(c, k)
    \/ NestedGetRead(c)
    \/ \E ended \in {"return", "error", "panic"} : Work(c, ended)
    \/ MapWriteUnlock(c)
    \/ HelperReturn(c)

NextNested ==
    \/ \E c \in Callers, kind \in Helpers : MapWriteCall(c, kind)
    \/ \E c \in Callers : NestedWrite(c)
    \/ \E c \in Callers : NestedGet(c)
    \/ \E c \in Callers : NestedStep(c)

SpecNested ==
    /\ InitHelper /\ [][NextNested]_vars
    /\ \A c \in Callers : WF_vars(NestedStep(c))

\* caller c is inside a call of Set, Delete, Get or Has that its unit of
\* work has made
InNestedCall(c) ==
    /\ scope[c].stage = "enter" /\ held[c][TheMap] = "W"
    /\ pc[c].at \in {"Set_announce", "Delete_announce", "Get_rlock"}

\* C35: a call of Set, Delete, Get or Has of the Map made by the unit of
\* work of Write or WriteE on that Map returns.
C35_NestedCallReturns ==
    \A c \in Callers : InNestedCall(c) ~> pc[c] = Idle

=============================================================================
